---- MODULE Spec2Model ----
(***************************************************************************)
(* TagLens: the media stores and the operations on them.                   *)
(*                                                                         *)
(* Two databases hold media records.  users.db (src/database.py) has the   *)
(* `images` table that the HTTP handlers of src/app.py write, list, fetch  *)
(* and delete.  photos.db (src/scripts/database_helper.py) has the         *)
(* `photos` table with its keyword index photos_fts, vector index          *)
(* photos_vec and counters user_stats, written by save_photo_to_db and     *)
(* save_video_to_db through one shared sqlite3 connection.                 *)
(***************************************************************************)
EXTENDS Integers, Sequences, FiniteSets, TLC

VARIABLES
    bucket,          \* B2: the key prefixes "<user_id>/" under which files are stored
    images,          \* users.db: rows of table images
    images_seq,      \* users.db: sqlite_sequence.seq of images (AUTOINCREMENT)
    photos,          \* photos.db as the shared connection sees it: table photos
    photos_fts,      \*   keyword index rows
    photos_vec,      \*   vector index rows
    user_stats,      \*   per-owner counters
    photos_seq,      \*   sqlite_sequence.seq of photos
    committed,       \* photos.db as committed (what survives, what others see)
    failed,          \* history: photo_ids whose save_* call raised before commit
    ingesting,       \* the save_* call that runs statement by statement, if any
    assigned,        \* history: ids handed out so far, per table
    minted,          \* history: per owner, the person_<n> suffixes minted so far
    pending,         \* per tagging call in flight: the owner and the tagged faces
    users,           \* users.db: rows of table users
    resolving,       \* the request whose session is being resolved step by step, if any
    clock,           \* the time _now_iso() returns
    sessions,        \* users.db: rows of table sessions
    resp             \* the last HTTP response produced by a handler

vars == <<images, images_seq, bucket, photos, photos_fts, photos_vec, user_stats,
          photos_seq, committed, failed, ingesting, assigned, minted, pending,
          users, resolving, clock, sessions, resp>>

appVars == <<images, images_seq, bucket>>
dbVars == <<photos, photos_fts, photos_vec, user_stats, photos_seq, committed, failed,
           ingesting>>

----------------------------------------------------------------------------
(* Bounds and input domains *)

\* At most this many records are created in a run, over both databases.
MaxRecords == 3

Users == {1, 2}

\* Optional values: None, or a one-element tuple holding the value.
None == << >>

Some(v) == <<v>>

\* The session cookie of a request: absent (or empty), or a raw token.  In
\* Init user u is signed in with the session whose token is u, so these are
\* the cookies of an anonymous client and of each signed-in user.
AuthContexts == {None} \cup {Some(u) : u \in Users}

\* taken_at as parsed from the upload payload: absent/unparseable, or a time.
TakenAts == {None, Some(1)}

\* The text columns of a photo as get_complete_metadata hands them over:
\* one with a reverse-geocoded place, one without GPS data.
TextWithPlace ==
    [loc_description |-> Some("Bryggen"), loc_city |-> Some("Bergen"),
     loc_state |-> Some("Vestland"), loc_country |-> Some("Norway"),
     caption |-> Some("a dog on a pier"), ocr_text |-> Some("EXIT")]

TextWithoutPlace ==
    [loc_description |-> None, loc_city |-> None,
     loc_state |-> None, loc_country |-> None,
     caption |-> Some("a cat"), ocr_text |-> Some("")]

Texts == {TextWithPlace, TextWithoutPlace}

\* sqlite_sequence is seeded so that the first photo_id is seed + 1.
PhotosSeqSeed == 99999

\* Declared width of photos_vec.embedding, the output width of the encoder.
EmbeddingDim == 384

\* photo_id values a request may carry (digits), of either table or of none.
\* Face embeddings the detector returns: FaceA and FaceA2 are within the
\* similarity threshold of each other (cosine 0.894), FaceB is within it of
\* neither (cosine 0 and 0.447).
FaceA == <<1, 0>>
FaceB == <<0, 1>>
FaceA2 == <<2, 1>>

\* What the detector returns for an image: no face, one face, two faces,
\* and a face whose embedding could not be read.
Detections ==
    {<< >>, <<FaceA>>, <<FaceB>>, <<FaceA2>>, <<FaceA, FaceB>>, <<FaceA, FaceA2>>,
     << << >>, FaceB>>}

\* Records stored by the face-tagging ingestion.
MaxTagged == 2

\* The latest time the clock reaches.
MaxClock == 2

\* Ingestion calls that can be in flight at once.
Calls == {"c1", "c2"}

RequestIds == (1 .. MaxRecords) \cup {PhotosSeqSeed + 1}

\* Raw photo_id parameters: a digit string (its value) or something else.
RawPhotoIds == {Some(i) : i \in RequestIds} \cup {None}

\* At most this many sessions are created in a run.
MaxSessions == 2

\* At most this many accounts exist in a run; Users are the two of Init.
MaxAccounts == 4

\* Session cookies a client can send: absent (or empty), a token no session
\* was issued for, or a token that was issued (tokens are random, so no
\* client holds one before generate_session_token returns it).
SessionCookies == {None, Some(0)} \cup {Some(t) : t \in 1 .. Cardinality(sessions)}

\* CSRF tokens as the cookie or the form field carries them: missing,
\* empty, or one of two values.
CsrfTokens == {None, Some(""), Some("a"), Some("b")}

\* The email field of the login form: empty, an address no account has, or
\* the address of a user.
Emails == {None, Some(0)} \cup {Some(u) : u \in Users}

\* The password field of the login form: empty, or the password of a user.
Passwords == {None} \cup {Some(u) : u \in Users}

----------------------------------------------------------------------------
(* Helpers *)

Max(S) == CHOOSE m \in S : \A x \in S : x <= m


SortKeyNullsFirst(r, sort_by) ==
    IF sort_by = "taken" THEN (IF r.taken_at # None THEN r.taken_at[1] ELSE 0)
    ELSE r.created_at

\* ORDER BY key: uploaded -> created_at; taken -> taken_at, or created_at
\* for a record without taken_at.
SortKey(r, sort_by) ==
    IF sort_by = "taken" /\ r.taken_at # None THEN r.taken_at[1] ELSE r.created_at

\* Whether record a comes no later than record b in the listing.
Before(a, b, sort_by, order) ==
    \/ order = "asc" /\ SortKey(a, sort_by) < SortKey(b, sort_by)
    \/ order # "asc" /\ SortKey(a, sort_by) > SortKey(b, sort_by)
    \/ SortKey(a, sort_by) = SortKey(b, sort_by) /\ a.id <= b.id

RECURSIVE SortRecords(_, _, _)
SortRecords(S, sort_by, order) ==
    IF S = {} THEN << >>
    ELSE LET m == CHOOSE r \in S : \A o \in S : Before(r, o, sort_by, order)
         IN  <<m>> \o SortRecords(S \ {m}, sort_by, order)

Range(s) == {s[i] : i \in 1 .. Len(s)}

Created == images_seq + (photos_seq - PhotosSeqSeed)

NoResponse == [route |-> "none", user |-> None, status |-> 0,
               photo_id |-> None, photos |-> << >>, url |-> None, raised |-> FALSE,
               files |-> {}, location |-> None, session_cookie |-> None,
               errors |-> {}]

----------------------------------------------------------------------------
(* users.db: the images table behind the HTTP handlers *)

\* INTEGER PRIMARY KEY AUTOINCREMENT: one more than the largest id the table
\* has ever held, which sqlite keeps in sqlite_sequence.
NextImageIdReusing == IF images = {} THEN 1 ELSE Max({r.id : r \in images}) + 1

NextImageId == images_seq + 1

\* Database.create_image_metadata: INSERT INTO images and commit.
create_image_metadata(user_id, faces, taken_at) ==
    LET id == NextImageId
    IN  /\ images' = images \cup
              {[id |-> id, user_id |-> user_id, faces |-> faces,
                taken_at |-> taken_at, created_at |-> id]}
        /\ images_seq' = id
        /\ assigned' = [assigned EXCEPT !.images = @ \cup {id}]

list_images_unscoped(user_id, sort_by, order) ==
    SortRecords(images, sort_by, order)

\* Database.list_images_for_user: the owner's rows, ordered.
list_images_for_user(user_id, sort_by, order) ==
    SortRecords({r \in images : r.user_id = user_id}, sort_by, order)

fetch_image_by_id(photo_id, user_id) ==
    LET S == {r \in images : r.id = photo_id}
    IN  IF S = {} THEN None ELSE Some(CHOOSE r \in S : TRUE)

\* Database.fetch_image_for_user: the row with this id if the owner has it.
fetch_image_for_user(photo_id, user_id) ==
    LET S == {r \in images : r.id = photo_id /\ r.user_id = user_id}
    IN  IF S = {} THEN None ELSE Some(CHOOSE r \in S : TRUE)

\* Database.delete_image_for_user: the rows the DELETE removes.
DeletedRows(photo_id, user_id) ==
    {r \in images : r.id = photo_id /\ r.user_id = user_id}

\* auth.DEFAULT_MAX_AGE through session_expiration(): the lifetime of a
\* session, in ticks of the clock.
SessionMaxAge == 2

\* _now_iso(): the current time.
_now_iso == clock

\* _is_expired(expires_at): the stored value always parses, so the session
\* is expired when expires_at is not after the current time.
_is_expired_strict(expires_at) == expires_at < _now_iso

_is_expired(expires_at) == expires_at <= _now_iso

\* auth.hash_session_token: the hex sha256 digest of the raw token.
hash_session_token(raw) == <<"sha256", raw>>

\* auth.generate_session_token: a new random token; one no session holds.
generate_session_token == Cardinality(sessions) + 1

\* Database.fetch_user_by_id: the account with this id; accounts are
\* never deleted.
fetch_user_by_id(user_id) == IF user_id \in Users THEN Some(user_id) ELSE None

\* The row Database.create_session inserts: last_seen_at starts as
\* created_at, revoked_at as NULL.
SessionRecord(id, user_id, token_hash, created_at, expires_at) ==
    [id |-> id, user_id |-> user_id, token_hash |-> token_hash,
     created_at |-> created_at, expires_at |-> expires_at,
     last_seen_at |-> created_at, revoked_at |-> None]

\* The Database methods on table sessions take the table as db and, when
\* they write, give the table after their committed statement.

\* Database.create_session: the id is the next AUTOINCREMENT value (session
\* rows are never deleted).
create_session(db, user_id, token_hash, expires_at) ==
    db \cup {SessionRecord(Cardinality(db) + 1, user_id, token_hash, _now_iso, expires_at)}

\* Database.fetch_session_by_token_hash (token_hash is UNIQUE).
fetch_session_by_token_hash(db, token_hash) ==
    LET S == {s \in db : s.token_hash = token_hash}
    IN  IF S = {} THEN None ELSE Some(CHOOSE s \in S : TRUE)

\* Database.touch_session:
\* UPDATE sessions SET last_seen_at = ? WHERE id = ?.
touch_session_clearing_revocation(db, session_id, t) ==
    {IF s.id = session_id THEN [s EXCEPT !.last_seen_at = t, !.revoked_at = None]
     ELSE s : s \in db}

touch_session(db, session_id, t) ==
    {IF s.id = session_id THEN [s EXCEPT !.last_seen_at = t] ELSE s : s \in db}

\* Database.revoke_session:
\* UPDATE sessions SET revoked_at = ? WHERE id = ?.
revoke_session(db, session_id, t) ==
    {IF s.id = session_id THEN [s EXCEPT !.revoked_at = Some(t)] ELSE s : s \in db}

\* Database.revoke_session_by_hash:
revoke_session_by_hash_of_nothing(db, token_hash, t) == db

\* UPDATE sessions SET revoked_at = ? WHERE token_hash = ?.
revoke_session_by_hash(db, token_hash, t) ==
    {IF s.token_hash = token_hash THEN [s EXCEPT !.revoked_at = Some(t)] ELSE s
     : s \in db}

\* _get_auth_context testing only _is_expired(session.expires_at), not
\* session.revoked_at.
AuthContextOfUnexpired(token) ==
    LET anonymous == [user |-> None, session |-> None, clear_cookie |-> TRUE]
    IN  IF token = None
        THEN [anonymous EXCEPT !.clear_cookie = FALSE]
        ELSE LET session == fetch_session_by_token_hash(sessions, hash_session_token(token[1]))
             IN  IF session = None THEN anonymous
                 ELSE IF _is_expired(session[1].expires_at) THEN anonymous
                 ELSE IF fetch_user_by_id(session[1].user_id) = None THEN anonymous
                 ELSE [user |-> fetch_user_by_id(session[1].user_id),
                       session |-> session, clear_cookie |-> FALSE]

\* The value _get_auth_context returns for a request with this session
\* cookie: the user, the session and whether the cookie is to be cleared.
AuthContext(token) ==
    LET anonymous == [user |-> None, session |-> None, clear_cookie |-> TRUE]
    IN  IF token = None
        THEN [anonymous EXCEPT !.clear_cookie = FALSE]
        ELSE LET session == fetch_session_by_token_hash(sessions, hash_session_token(token[1]))
             IN  IF session = None THEN anonymous
                 ELSE IF session[1].revoked_at # None \/ _is_expired(session[1].expires_at)
                 THEN anonymous
                 ELSE IF fetch_user_by_id(session[1].user_id) = None THEN anonymous
                 ELSE [user |-> fetch_user_by_id(session[1].user_id),
                       session |-> session, clear_cookie |-> FALSE]

\* What _get_auth_context writes for a request with this session cookie: an
\* expired session not yet revoked is revoked, a valid one is touched.
_get_auth_context(token) ==
    sessions' =
        IF token = None THEN sessions
        ELSE LET session == fetch_session_by_token_hash(sessions, hash_session_token(token[1]))
             IN  IF session = None THEN sessions
                 ELSE IF session[1].revoked_at # None \/ _is_expired(session[1].expires_at)
                 THEN IF session[1].revoked_at = None
                      THEN revoke_session(sessions, session[1].id, _now_iso)
                      ELSE sessions
                 ELSE IF fetch_user_by_id(session[1].user_id) = None THEN sessions
                 ELSE touch_session(sessions, session[1].id, _now_iso)

\* Set-Cookie values for the session cookie.
ClearSessionCookie == <<"clear">>

SetSessionCookie(token) == <<"set", token>>

\* The response _ensure_authenticated issues for an unauthenticated request:
\* a redirect to /login that clears the session cookie when the context
\* says so.
_ensure_authenticated(route, token) ==
    [NoResponse EXCEPT !.route = route, !.status = 303,
                       !.location = Some("/login"),
                       !.session_cookie = IF AuthContext(token).clear_cookie
                                          THEN ClearSessionCookie ELSE None]

\* The owner whose media a handler reads and writes: auth.user.id.
ScopeAnyOwner(auth) == CHOOSE u \in Users : TRUE

Scope(auth) == auth[1]

\* GET /api/profile
profile_api(token, sort_by, order) ==
    LET auth == AuthContext(token).user IN
    /\ resp' =
         IF auth = None
         THEN [NoResponse EXCEPT !.route = "GET /api/profile", !.status = 401]
         ELSE IF sort_by \notin {"uploaded", "taken"} \/ order \notin {"asc", "desc"}
         THEN [NoResponse EXCEPT !.route = "GET /api/profile", !.user = auth,
                                 !.status = 400]
         ELSE [NoResponse EXCEPT !.route = "GET /api/profile", !.user = auth,
                                 !.status = 200,
                                 !.photos = list_images_for_user(Scope(auth), sort_by, order)]
    /\ _get_auth_context(token)
    /\ UNCHANGED <<appVars, dbVars, assigned, minted, pending, resolving, users, clock>>

\* The checks of the upload payload: filename or image_base64 missing, the
\* base64 invalid, or the decoded image empty.
InvalidPayloadIgnored(payload_ok) == FALSE

InvalidPayload(payload_ok) == ~payload_ok

\* POST /api/photos.  payload_ok: filename and image_base64 present, the
\* base64 valid and non-empty.  fails: where something in the try block
\* raises ("before" the insert, "after" it, e.g. the B2 upload, or "no").
upload_photo_api(token, payload_ok, taken_at, fails) ==
    LET auth == AuthContext(token).user IN
    /\ Created < MaxRecords
    /\ IF auth = None
       THEN /\ resp' = [NoResponse EXCEPT !.route = "POST /api/photos", !.status = 401]
            /\ UNCHANGED <<appVars, assigned>>
       ELSE IF InvalidPayload(payload_ok)
       THEN /\ resp' = [NoResponse EXCEPT !.route = "POST /api/photos", !.user = auth,
                                          !.status = 400]
            /\ UNCHANGED <<appVars, assigned>>
       ELSE IF fails = "before"
       THEN /\ resp' = [NoResponse EXCEPT !.route = "POST /api/photos", !.user = auth,
                                          !.status = 500]
            /\ UNCHANGED <<appVars, assigned>>
       ELSE /\ create_image_metadata(Scope(auth), << >>, taken_at)
            /\ bucket' = IF fails = "after" THEN bucket
                         ELSE bucket \cup {Scope(auth)}
            /\ resp' = [NoResponse EXCEPT !.route = "POST /api/photos", !.user = auth,
                                          !.status = IF fails = "after" THEN 500 ELSE 201,
                                          !.photo_id = IF fails = "after" THEN None
                                                       ELSE Some(NextImageId)]
    /\ _get_auth_context(token)
    /\ UNCHANGED <<dbVars, minted, pending, resolving, users, clock>>

\* The answer to a fetched record: not found, or the signed URL of its B2 key.
FoundStatusAlways(record, found, missing) == found

FoundStatus(record, found, missing) == IF record = None THEN missing ELSE found

SignedUrl(auth, photo_id, status, found) ==
    IF status = found THEN Some(<<Scope(auth), photo_id>>) ELSE None

\* GET /api/photos/download
download_photo_api(token, raw_photo_id) ==
    LET auth == AuthContext(token).user IN
    /\ resp' =
         IF auth = None
         THEN [NoResponse EXCEPT !.route = "GET /api/photos/download", !.status = 401]
         ELSE IF raw_photo_id = None
         THEN [NoResponse EXCEPT !.route = "GET /api/photos/download", !.user = auth,
                                 !.status = 400]
         ELSE LET photo_id == raw_photo_id[1]
                  record == fetch_image_for_user(photo_id, Scope(auth))
                  status == FoundStatus(record, 200, 404)
              IN  [NoResponse EXCEPT !.route = "GET /api/photos/download", !.user = auth,
                                     !.status = status, !.photo_id = raw_photo_id,
                                     !.url = SignedUrl(auth, photo_id, status, 200)]
    /\ _get_auth_context(token)
    /\ UNCHANGED <<appVars, dbVars, assigned, minted, pending, resolving, users, clock>>

\* GET /api/photos/view
view_photo(token, raw_photo_id) ==
    LET auth == AuthContext(token).user IN
    /\ resp' =
         IF auth = None
         THEN _ensure_authenticated("GET /api/photos/view", token)
         ELSE IF raw_photo_id = None
         THEN [NoResponse EXCEPT !.route = "GET /api/photos/view", !.user = auth,
                                 !.status = 400]
         ELSE LET photo_id == raw_photo_id[1]
                  record == fetch_image_for_user(photo_id, Scope(auth))
                  status == FoundStatus(record, 302, 404)
              IN  [NoResponse EXCEPT !.route = "GET /api/photos/view", !.user = auth,
                                     !.status = status, !.photo_id = raw_photo_id,
                                     !.url = SignedUrl(auth, photo_id, status, 302)]
    /\ _get_auth_context(token)
    /\ UNCHANGED <<appVars, dbVars, assigned, minted, pending, resolving, users, clock>>

\* The status delete_photo_api answers with, given what the DELETE removed.
DeleteStatusAlwaysOk(deleted) == 200

DeleteStatus(deleted) == IF deleted THEN 200 ELSE 404

\* payload.get("confirm_delete") is True; confirm_delete is FALSE for a
\* payload where the field is false, absent or any other value.
ConfirmedAlways(confirm_delete) == TRUE

Confirmed(confirm_delete) == confirm_delete = TRUE

\* DELETE /api/photos
delete_photo_api(token, raw_photo_id, confirm_delete) ==
    LET auth == AuthContext(token).user IN
    /\ IF auth = None
       THEN /\ resp' = [NoResponse EXCEPT !.route = "DELETE /api/photos", !.status = 401]
            /\ UNCHANGED images
       ELSE IF raw_photo_id = None
       THEN /\ resp' = [NoResponse EXCEPT !.route = "DELETE /api/photos", !.user = auth,
                                          !.status = 400,
                                          !.errors = {"photo_id must be an integer"}]
            /\ UNCHANGED images
       ELSE IF ~Confirmed(confirm_delete)
       THEN /\ resp' = [NoResponse EXCEPT !.route = "DELETE /api/photos", !.user = auth,
                                          !.status = 400,
                                          !.errors = {"confirm_delete=true is required to delete a photo"}]
            /\ UNCHANGED images
       ELSE LET gone == DeletedRows(raw_photo_id[1], Scope(auth))
            IN  /\ images' = images \ gone
                /\ resp' = [NoResponse EXCEPT !.route = "DELETE /api/photos", !.user = auth,
                                              !.status = DeleteStatus(gone # {}),
                                              !.photo_id = raw_photo_id]
    /\ _get_auth_context(token)
    /\ UNCHANGED <<images_seq, bucket, dbVars, assigned, minted, pending, resolving, users, clock>>

\* GET /debug/b2: every file of the bucket, listed by name
\* "<user_id>/<photo_id><ext>"; the handler takes no request and checks no
\* session.  The listing is kept as the set of owners whose files it names.
debug_b2 ==
    /\ resp' = [NoResponse EXCEPT !.route = "GET /debug/b2", !.status = 200,
                                  !.files = bucket]
    /\ UNCHANGED <<appVars, dbVars, assigned, minted, pending, resolving, users, clock, sessions>>

----------------------------------------------------------------------------
(* users.db: accounts, sessions and the routes that sign in and out *)

\* Database.fetch_user_by_email: the address of user u is Some(u); any
\* other address belongs to no account.
fetch_user_by_email(email) == IF email[1] \in Users THEN Some(email[1]) ELSE None

\* A verify_password that accepts every password.
verify_password_of_anyone(password, user_id) == TRUE

\* auth.verify_password against the stored hash of the user: the password
\* of user u is Some(u).
verify_password(password, user_id) == password = Some(user_id)

\* auth.verify_csrf_token: both tokens present and non-empty, and equal.
verify_csrf_token_never(cookie_token, form_token) == FALSE

verify_csrf_token_by_equality(cookie_token, form_token) == cookie_token = form_token

verify_csrf_token(cookie_token, form_token) ==
    IF cookie_token \in {None, Some("")} \/ form_token \in {None, Some("")}
    THEN FALSE
    ELSE cookie_token[1] = form_token[1]

\* GET /dashboard
dashboard(token) ==
    LET context == AuthContext(token) IN
    /\ resp' = IF context.user = None
               THEN _ensure_authenticated("GET /dashboard", token)
               ELSE [NoResponse EXCEPT !.route = "GET /dashboard", !.user = context.user,
                                       !.status = 200]
    /\ _get_auth_context(token)
    /\ UNCHANGED <<appVars, dbVars, assigned, minted, pending, resolving, users, clock>>

\* GET /profile
profile(token) ==
    LET context == AuthContext(token) IN
    /\ resp' = IF context.user = None
               THEN _ensure_authenticated("GET /profile", token)
               ELSE [NoResponse EXCEPT !.route = "GET /profile", !.user = context.user,
                                       !.status = 200]
    /\ _get_auth_context(token)
    /\ UNCHANGED <<appVars, dbVars, assigned, minted, pending, resolving, users, clock>>

\* GET /: the landing page, rendered whatever the authentication state.
home(token) ==
    LET context == AuthContext(token) IN
    /\ resp' = [NoResponse EXCEPT !.route = "GET /", !.status = 200,
                                  !.session_cookie = IF context.clear_cookie
                                                     THEN ClearSessionCookie ELSE None]
    /\ _get_auth_context(token)
    /\ UNCHANGED <<appVars, dbVars, assigned, minted, pending, resolving, users, clock>>

\* The status of the login page that reports form errors.
LoginErrorStatus(csrf_valid) == IF ~csrf_valid THEN 400 ELSE 200

\* POST /login.  email and password are None when the form field is empty.
login_post(token, csrf_cookie, csrf_form, email, password) ==
    LET csrf_valid == verify_csrf_token(csrf_cookie, csrf_form)
        errors == (IF ~csrf_valid THEN {"CSRF validation failed. Please try again."}
                   ELSE {})
                  \cup (IF email = None THEN {"Email is required."} ELSE {})
                  \cup (IF password = None THEN {"Password is required."} ELSE {})
        user == IF email = None THEN None ELSE fetch_user_by_email(email)
        session_token == generate_session_token
        revoked == IF token # None
                   THEN revoke_session_by_hash(sessions, hash_session_token(token[1]),
                                               _now_iso)
                   ELSE sessions
    IN  /\ IF errors # {}
           THEN /\ resp' = [NoResponse EXCEPT !.route = "POST /login",
                                              !.status = LoginErrorStatus(csrf_valid),
                                              !.errors = errors]
                /\ UNCHANGED sessions
           ELSE IF user = None \/ ~verify_password(password, user[1])
           THEN /\ resp' = [NoResponse EXCEPT !.route = "POST /login", !.status = 401,
                                              !.errors = {"Invalid credentials."}]
                /\ UNCHANGED sessions
           ELSE /\ Cardinality(sessions) < MaxSessions
                /\ sessions' = create_session(revoked, user[1],
                                              hash_session_token(session_token),
                                              _now_iso + SessionMaxAge)
                /\ resp' = [NoResponse EXCEPT !.route = "POST /login", !.status = 303,
                                              !.location = Some("/dashboard"),
                                              !.session_cookie =
                                                  SetSessionCookie(session_token)]
        /\ UNCHANGED <<appVars, dbVars, assigned, minted, pending, resolving, users, clock>>

\* POST /logout revoking the session before it looks at the CSRF tokens.
logout_before_csrf_check(token, csrf_cookie, csrf_form) ==
    /\ sessions' = IF token # None
                   THEN revoke_session_by_hash(sessions, hash_session_token(token[1]),
                                               _now_iso)
                   ELSE sessions
    /\ resp' = [NoResponse EXCEPT !.route = "POST /logout", !.status = 303,
                                  !.location = Some("/"),
                                  !.session_cookie = ClearSessionCookie]
    /\ UNCHANGED <<appVars, dbVars, assigned, minted, pending, resolving, users, clock>>

\* POST /logout
logout(token, csrf_cookie, csrf_form) ==
    /\ sessions' = IF verify_csrf_token(csrf_cookie, csrf_form) /\ token # None
                   THEN revoke_session_by_hash(sessions, hash_session_token(token[1]),
                                               _now_iso)
                   ELSE sessions
    /\ resp' = [NoResponse EXCEPT !.route = "POST /logout", !.status = 303,
                                  !.location = Some("/"),
                                  !.session_cookie = ClearSessionCookie]
    /\ UNCHANGED <<appVars, dbVars, assigned, minted, pending, resolving, users, clock>>

----------------------------------------------------------------------------
(* _get_auth_context one database call at a time.  Every Database method
   opens its own connection and commits, and the handler awaits each one,
   so the calls of other requests run between the fetch of the session and
   the write that follows it.  resolving holds the session row as the
   request fetched it. *)

\* GET /dashboard up to db.fetch_session_by_token_hash and the tests on the
\* row it returned: without a cookie, without a row, or with a row that is
\* revoked already, the request is redirected at once; otherwise
\* db.revoke_session (expired) or db.touch_session (valid) is called next.
dashboard_fetch_session(token) ==
    LET session == IF token = None THEN None
                   ELSE fetch_session_by_token_hash(sessions, hash_session_token(token[1]))
    IN  /\ resolving = None
        /\ IF session = None \/ session[1].revoked_at # None
                \/ (~_is_expired(session[1].expires_at)
                      /\ fetch_user_by_id(session[1].user_id) = None)
           THEN /\ resp' = _ensure_authenticated("GET /dashboard", token)
                /\ UNCHANGED resolving
           ELSE /\ resolving' = Some([session |-> session[1],
                                      pc |-> IF _is_expired(session[1].expires_at)
                                             THEN "revoke_session" ELSE "touch_session"])
                /\ UNCHANGED resp
        /\ UNCHANGED <<appVars, dbVars, assigned, minted, pending, users, clock, sessions>>

\* await db.revoke_session(session.id, _now_iso()), then the redirect to
\* /login that clears the cookie.
dashboard_revoke_session ==
    /\ resolving # None
    /\ resolving[1].pc = "revoke_session"
    /\ sessions' = revoke_session(sessions, resolving[1].session.id, _now_iso)
    /\ resp' = [NoResponse EXCEPT !.route = "GET /dashboard", !.status = 303,
                                  !.location = Some("/login"),
                                  !.session_cookie = ClearSessionCookie]
    /\ resolving' = None
    /\ UNCHANGED <<appVars, dbVars, assigned, minted, pending, users, clock>>

\* await db.touch_session(session.id, _now_iso()), then the page for the
\* user of the session.
dashboard_touch_session ==
    /\ resolving # None
    /\ resolving[1].pc = "touch_session"
    /\ sessions' = touch_session(sessions, resolving[1].session.id, _now_iso)
    /\ resp' = [NoResponse EXCEPT !.route = "GET /dashboard",
                                  !.user = fetch_user_by_id(resolving[1].session.user_id),
                                  !.status = 200]
    /\ resolving' = None
    /\ UNCHANGED <<appVars, dbVars, assigned, minted, pending, users, clock>>

----------------------------------------------------------------------------
(* Registration, src/app.py and src/database.py.  A text is the sequence of
   its characters, so that stripping, lower-casing and len() are computed;
   None stands for a form field that is absent. *)

\* The texts the registration form is filled with.
Usernames ==
    {None, Some(<<"a", "n", "n">>), Some(<<" ", "a", "n", "n", " ">>),
     Some(<<"c", "a", "t">>), Some(<<"C", "a", "t">>)}

RegisterEmails ==
    {None, Some(<<"A", "@", "x">>), Some(<<"c", "@", "x">>),
     Some(<<" ", "C", "@", "x">>), Some(<<"d", "@", "x">>)}

Password8 == <<"p", "a", "s", "s", "w", "o", "r", "d">>
Password7 == <<"p", "a", "s", "s", "w", "o", "r">>

\* <<password, confirm_password>>
PasswordPairs ==
    {<<Some(Password8), Some(Password8)>>, <<Some(Password7), Some(Password7)>>,
     <<Some(Password8), Some(Password7)>>}

\* form.get(name) or "".
OrEmpty(field) == IF field = None THEN << >> ELSE field[1]

\* str.strip(): the text without its leading and trailing blanks.
RECURSIVE strip(_)
strip(text) ==
    IF text = << >> THEN << >>
    ELSE IF Head(text) = " " THEN strip(Tail(text))
    ELSE IF text[Len(text)] = " " THEN strip(SubSeq(text, 1, Len(text) - 1))
    ELSE text

\* str.lower() left out: every character stays as typed.
lower_keeping_case(text) == text

\* str.lower() over the characters the forms use.
lower(text) ==
    [i \in 1 .. Len(text) |->
        IF text[i] = "A" THEN "a" ELSE IF text[i] = "C" THEN "c" ELSE text[i]]

\* The username and email columns are UNIQUE: an INSERT that repeats a
\* stored username or a stored email raises IntegrityError.
IntegrityError(username, email) ==
    \E u \in users : u.username = username \/ u.email = email

\* Database.create_user(username, email, password_hash): the table after
\* the INSERT; the id is the AUTOINCREMENT key (no user row is deleted).
create_user(username, email) ==
    users \cup {[id |-> Cardinality(users) + 1, username |-> username,
                 email |-> lower(email)]}

\* POST /register
register_post(csrf_cookie, csrf_form, username_field, email_field, password_field, confirm_field) ==
    LET username == strip(OrEmpty(username_field))
        email == lower(strip(OrEmpty(email_field)))
        password == OrEmpty(password_field)
        confirm == OrEmpty(confirm_field)
        csrf_valid == verify_csrf_token(csrf_cookie, csrf_form)
        errors ==
            (IF ~csrf_valid THEN {"CSRF validation failed. Please try again."} ELSE {})
            \cup (IF Len(username) < 3
                  THEN {"Pick a username that is at least 3 characters."} ELSE {})
            \cup (IF email = << >> THEN {"Email is required."} ELSE {})
            \cup (IF Len(password) < 8
                  THEN {"Passwords must be at least 8 characters."} ELSE {})
            \cup (IF password # confirm
                  THEN {"Password confirmation does not match."} ELSE {})
    IN  /\ IF errors # {}
           THEN /\ resp' = [NoResponse EXCEPT !.route = "POST /register",
                                              !.status = IF ~csrf_valid THEN 400 ELSE 200,
                                              !.errors = errors]
                /\ UNCHANGED users
           ELSE IF IntegrityError(username, lower(email))
           THEN /\ resp' = [NoResponse EXCEPT
                               !.route = "POST /register",
                               !.status = IF ~csrf_valid THEN 400 ELSE 200,
                               !.errors = {"That username or email is already registered."}]
                /\ UNCHANGED users
           ELSE /\ Cardinality(users) < MaxAccounts
                /\ users' = create_user(username, email)
                /\ resp' = [NoResponse EXCEPT !.route = "POST /register", !.status = 303,
                                              !.location = Some("/login?registered=1")]
        /\ UNCHANGED <<appVars, dbVars, assigned, minted, pending, resolving, clock, sessions>>

----------------------------------------------------------------------------
(* photos.db: photos, photos_fts, photos_vec, user_stats on one connection *)

\* Trigger photos_ai: AFTER INSERT ON photos WHEN new.is_photo = 1.
photos_ai_unconditional(new) ==
    {[rowid |-> new.photo_id, loc_description |-> new.loc_description,
      loc_city |-> new.loc_city, loc_state |-> new.loc_state,
      loc_country |-> new.loc_country, caption |-> new.caption,
      ocr_text |-> new.ocr_text, user_id |-> new.user_id]}

photos_ai_keyed_by_owner(new) ==
    IF new.is_photo
    THEN {[rowid |-> new.user_id, loc_description |-> new.loc_description,
           loc_city |-> new.loc_city, loc_state |-> new.loc_state,
           loc_country |-> new.loc_country, caption |-> new.caption,
           ocr_text |-> new.ocr_text, user_id |-> new.user_id]}
    ELSE {}

photos_ai(new) ==
    IF new.is_photo
    THEN {[rowid |-> new.photo_id, loc_description |-> new.loc_description,
           loc_city |-> new.loc_city, loc_state |-> new.loc_state,
           loc_country |-> new.loc_country, caption |-> new.caption,
           ocr_text |-> new.ocr_text, user_id |-> new.user_id]}
    ELSE {}

\* The photo trigger adding one to both counters of the owner's row.
increment_both_counts(stats, new) ==
    IF ~new.is_photo THEN stats
    ELSE IF \E s \in stats : s.user_id = new.user_id
    THEN {IF s.user_id = new.user_id
          THEN [s EXCEPT !.photo_count = @ + 1, !.video_count = @ + 1] ELSE s
            : s \in stats}
    ELSE stats \cup {[user_id |-> new.user_id, photo_count |-> 1, video_count |-> 0]}

\* Trigger increment_photo_count: upsert of the owner's row, photo_count + 1.
increment_photo_count(stats, new) ==
    IF ~new.is_photo THEN stats
    ELSE IF \E s \in stats : s.user_id = new.user_id
    THEN {IF s.user_id = new.user_id THEN [s EXCEPT !.photo_count = @ + 1] ELSE s
            : s \in stats}
    ELSE stats \cup {[user_id |-> new.user_id, photo_count |-> 1, video_count |-> 0]}

\* Trigger increment_video_count: upsert of the owner's row, video_count + 1.
increment_video_count(stats, new) ==
    IF new.is_photo THEN stats
    ELSE IF \E s \in stats : s.user_id = new.user_id
    THEN {IF s.user_id = new.user_id THEN [s EXCEPT !.video_count = @ + 1] ELSE s
            : s \in stats}
    ELSE stats \cup {[user_id |-> new.user_id, photo_count |-> 0, video_count |-> 1]}

\* photo_id INTEGER PRIMARY KEY AUTOINCREMENT, seeded with PhotosSeqSeed.
NextPhotoId == photos_seq + 1

\* INSERT INTO photos with the three AFTER INSERT triggers it fires.
InsertPhotosRow(new) ==
    /\ photos' = photos \cup {new}
    /\ photos_seq' = new.photo_id
    /\ photos_fts' = photos_fts \cup photos_ai(new)
    /\ user_stats' = increment_video_count(increment_photo_count(user_stats, new), new)
    /\ assigned' = [assigned EXCEPT !.photos = @ \cup {new.photo_id}]

\* embed_model.encode(caption): a vector of the encoder's width.
Encode(caption) == [dim |-> EmbeddingDim, of |-> caption]

\* The vector row save_photo_to_db inserts for the row it has just written.
VecRow(photo_id, user_id, caption) ==
    [photo_id |-> photo_id, user_id |-> user_id, embedding |-> Encode(caption)]

\* conn.commit(): what the connection sees becomes the committed database.
Commit(vec) ==
    committed' = [photos |-> photos', photos_fts |-> photos_fts',
                  photos_vec |-> vec, user_stats |-> user_stats']

\* photos_vec is a vec0 table with embedding FLOAT[384]: its INSERT raises
\* for a vector of any other number of components.
Vec0Accepts(embedding) == embedding.dim = EmbeddingDim

\* save_photo_to_db(conn, metadata).  raises: the step after the INSERT that
\* raises ("encode", "vec_insert"), "dimension" when the encoder returns a
\* vector of another width than the table's, or "no".  An exception leaves
\* the function before conn.commit(); nothing rolls the connection back.
save_photo_to_db(user_id, text, raises) ==
    LET photo_id == NextPhotoId
        embedding == IF raises = "dimension"
                     THEN [Encode(text.caption[1]) EXCEPT !.dim = EmbeddingDim + 1]
                     ELSE Encode(text.caption[1])
        new == [photo_id |-> photo_id, user_id |-> user_id, is_photo |-> TRUE,
                loc_description |-> text.loc_description, loc_city |-> text.loc_city,
                loc_state |-> text.loc_state, loc_country |-> text.loc_country,
                caption |-> text.caption, ocr_text |-> text.ocr_text]
    IN  /\ Created < MaxRecords
        /\ InsertPhotosRow(new)
        /\ IF raises \in {"no", "dimension"} /\ Vec0Accepts(embedding)
           THEN /\ photos_vec' = photos_vec \cup
                        {[VecRow(photo_id, user_id, text.caption[1])
                              EXCEPT !.embedding = embedding]}
                /\ Commit(photos_vec')
                /\ UNCHANGED failed
           ELSE /\ failed' = failed \cup {photo_id}
                /\ UNCHANGED <<photos_vec, committed>>
        /\ UNCHANGED <<ingesting, appVars, minted, pending, resolving, users, clock, sessions, resp>>

\* model.caption(img, length="short") in get_complete_metadata: the caption
\* dict, or None when the model is not loaded or the call raises.
Caption(captioning) == IF captioning = "ok" THEN Some("caption") ELSE None

\* get_complete_metadata(path, conn, user_id), src/scripts/metadata.py.
\* captioning: "ok", "unavailable" (model is None) or "raises".  The line
\* metadata['caption'] = output_caption['caption'] subscripts None when
\* there is no caption, which raises before save_photo_to_db is called.
get_complete_metadata(user_id, text, captioning, raises) ==
    IF Caption(captioning) = None
    THEN /\ resp' = [NoResponse EXCEPT !.route = "get_complete_metadata",
                                       !.user = Some(user_id), !.raised = TRUE]
         /\ UNCHANGED <<appVars, dbVars, assigned, minted, pending, resolving, users, clock, sessions>>
    ELSE save_photo_to_db(user_id, text, raises)

\* save_video_to_db(conn, metadata): the row with is_photo false and every
\* descriptive column NULL, then the commit.
save_video_to_db(user_id) ==
    LET new == [photo_id |-> NextPhotoId, user_id |-> user_id, is_photo |-> FALSE,
                loc_description |-> None, loc_city |-> None, loc_state |-> None,
                loc_country |-> None, caption |-> None, ocr_text |-> None]
    IN  /\ Created < MaxRecords
        /\ InsertPhotosRow(new)
        /\ Commit(photos_vec)
        /\ UNCHANGED <<photos_vec, failed, ingesting, appVars, minted, pending, resolving, users, clock,
                       sessions, resp>>

----------------------------------------------------------------------------
(* save_photo_to_db and save_video_to_db statement by statement.  The
   connection is opened by sqlite3.connect with the default isolation
   level, so the first INSERT of a call begins a write transaction that
   stays open until conn.commit().  ingesting.pc names the statement the
   call is in: "upload_to_b2" and "encode" are the calls to the object
   storage and to the embedding model. *)

\* The connection holds writes it has not committed: a write transaction,
\* and with it the write lock of photos.db, is open.
InWriteTransaction ==
    [photos |-> photos, photos_fts |-> photos_fts,
     photos_vec |-> photos_vec, user_stats |-> user_stats] # committed

\* The call is inside upload_to_b2 or embed_model.encode.
ExternalCallInProgress ==
    ingesting # None /\ ingesting[1].pc \in {"upload_to_b2", "encode"}

\* cursor.execute(sql, values): the INSERT INTO photos, first statement of
\* both functions; upload_to_b2 is called next.
execute_insert_photos(user_id, text, is_photo) ==
    LET new == IF is_photo
               THEN [photo_id |-> NextPhotoId, user_id |-> user_id, is_photo |-> TRUE,
                     loc_description |-> text.loc_description,
                     loc_city |-> text.loc_city, loc_state |-> text.loc_state,
                     loc_country |-> text.loc_country, caption |-> text.caption,
                     ocr_text |-> text.ocr_text]
               ELSE [photo_id |-> NextPhotoId, user_id |-> user_id, is_photo |-> FALSE,
                     loc_description |-> None, loc_city |-> None, loc_state |-> None,
                     loc_country |-> None, caption |-> None, ocr_text |-> None]
    IN  /\ ingesting = None
        /\ Created < MaxRecords
        /\ InsertPhotosRow(new)
        /\ ingesting' = Some([row |-> new, pc |-> "upload_to_b2"])
        /\ UNCHANGED <<photos_vec, committed, failed, appVars, minted, pending, resolving, users, clock,
                       sessions, resp>>

\* upload_to_b2 returns, with the file id or with None after a failed
\* upload: a photo goes on to embed_model.encode, a video to
\* conn.commit().
upload_to_b2 ==
    /\ ingesting # None
    /\ ingesting[1].pc = "upload_to_b2"
    /\ ingesting' = Some([ingesting[1] EXCEPT
                              !.pc = IF ingesting[1].row.is_photo THEN "encode" ELSE "commit"])
    /\ UNCHANGED <<photos, photos_fts, photos_vec, user_stats, photos_seq, committed,
                   failed, appVars, assigned, minted, pending, resolving, users, clock, sessions, resp>>

\* embed_model.encode(metadata["caption"]) returns.
embed_model_encode ==
    /\ ingesting # None
    /\ ingesting[1].pc = "encode"
    /\ ingesting' = Some([ingesting[1] EXCEPT !.pc = "insert_vec"])
    /\ UNCHANGED <<photos, photos_fts, photos_vec, user_stats, photos_seq, committed,
                   failed, appVars, assigned, minted, pending, resolving, users, clock, sessions, resp>>

\* embed_model.encode raises (upload_to_b2 catches what its upload raises
\* and returns None): the call is left before conn.commit() and nothing
\* rolls the connection back.
embed_model_encode_raises ==
    /\ ingesting # None
    /\ ingesting[1].pc = "encode"
    /\ failed' = failed \cup {ingesting[1].row.photo_id}
    /\ ingesting' = None
    /\ UNCHANGED <<photos, photos_fts, photos_vec, user_stats, photos_seq, committed,
                   appVars, assigned, minted, pending, resolving, users, clock, sessions, resp>>

\* cursor.execute("INSERT INTO photos_vec ...").
execute_insert_photos_vec ==
    /\ ingesting # None
    /\ ingesting[1].pc = "insert_vec"
    /\ photos_vec' = photos_vec \cup
           {VecRow(ingesting[1].row.photo_id, ingesting[1].row.user_id,
                   ingesting[1].row.caption[1])}
    /\ ingesting' = Some([ingesting[1] EXCEPT !.pc = "commit"])
    /\ UNCHANGED <<photos, photos_fts, user_stats, photos_seq, committed,
                   failed, appVars, assigned, minted, pending, resolving, users, clock, sessions, resp>>

\* conn.commit(), last statement of both functions.
conn_commit ==
    /\ ingesting # None
    /\ ingesting[1].pc = "commit"
    /\ committed' = [photos |-> photos, photos_fts |-> photos_fts,
                     photos_vec |-> photos_vec, user_stats |-> user_stats]
    /\ ingesting' = None
    /\ UNCHANGED <<photos, photos_fts, photos_vec, user_stats, photos_seq,
                   failed, appVars, assigned, minted, pending, resolving, users, clock, sessions, resp>>

----------------------------------------------------------------------------
(* Face tagging, src/scripts/insightface_tagging.py.  An embedding is a
   tuple of integers standing for a direction; a similarity score is kept
   exact as the pair <<dot, |left|^2 * |right|^2>>, that is dot / sqrt(n).
   A tag person_<n> is the pair <<"person", n>>; the empty tag is << >>. *)

RECURSIVE SumProducts(_, _)
SumProducts(left, right) ==
    IF left = << >> THEN 0
    ELSE Head(left) * Head(right) + SumProducts(Tail(left), Tail(right))

ScoreZero == <<0, 1>>
ScoreMinusOne == <<-1, 1>>

\* _cosine_similarity(left, right): 0.0 for an empty side, a length mismatch
\* or a zero norm.
_cosine_similarity(left, right) ==
    IF left = << >> \/ right = << >> \/ Len(left) # Len(right) THEN ScoreZero
    ELSE IF SumProducts(left, left) = 0 \/ SumProducts(right, right) = 0 THEN ScoreZero
    ELSE <<SumProducts(left, right), SumProducts(left, left) * SumProducts(right, right)>>

ScoreLess(a, b) ==
    IF a[1] >= 0 /\ b[1] < 0 THEN FALSE
    ELSE IF a[1] < 0 /\ b[1] >= 0 THEN TRUE
    ELSE IF a[1] >= 0 THEN a[1] * a[1] * b[2] < b[1] * b[1] * a[2]
    ELSE a[1] * a[1] * b[2] > b[1] * b[1] * a[2]

\* score > best_score on the exact representation.
ScoreGreater(a, b) ==
    IF a[1] >= 0 /\ b[1] < 0 THEN TRUE
    ELSE IF a[1] < 0 /\ b[1] >= 0 THEN FALSE
    ELSE IF a[1] >= 0 THEN a[1] * a[1] * b[2] > b[1] * b[1] * a[2]
    ELSE a[1] * a[1] * b[2] < b[1] * b[1] * a[2]

\* similarity_threshold = 0.45, as the fraction 9/20.
similarity_threshold_two_fifths == <<2, 5>>

similarity_threshold == <<9, 20>>

\* best_score >= similarity_threshold.
ScoreAtLeastThreshold(a) ==
    /\ a[1] >= 0
    /\ a[1] * a[1] * similarity_threshold[2] * similarity_threshold[2]
         >= similarity_threshold[1] * similarity_threshold[1] * a[2]

PersonTag(n) == <<"person", n>>

\* re.match(r"^person_(\d+)$", tag) and int(match.group(1)); 0 stands for
\* "no match", which leaves max_idx alone.
PersonIndex(tag) ==
    IF Len(tag) = 2 /\ tag[1] = "person" THEN tag[2] ELSE 0

\* _next_face_tag(known_tags): person_<max suffix + 1>.
_next_face_tag(known_tags) ==
    PersonTag(Max({0} \cup {PersonIndex(tag) : tag \in known_tags}) + 1)

\* The faces of a list of images, image by image, keeping the faces that
\* carry a tag and an embedding.
RECURSIVE KnownFaces(_)
KnownFaces(existing_images) ==
    IF existing_images = << >> THEN << >>
    ELSE SelectSeq(Head(existing_images).faces,
                   LAMBDA face : face.tag # << >> /\ face.embedding # << >>)
         \o KnownFaces(Tail(existing_images))

\* The loop over known_faces: the first face with the highest score wins.
RECURSIVE BestMatch(_, _, _)
BestMatch(embedding, known_faces, best) ==
    IF known_faces = << >> THEN best
    ELSE LET known == Head(known_faces)
             score == _cosine_similarity(embedding, known.embedding)
         IN  BestMatch(embedding, Tail(known_faces),
                       IF ScoreGreater(score, best.score)
                       THEN [tag |-> known.tag, score |-> score]
                       ELSE best)

\* The loop over detected without the append to known_faces.
RECURSIVE TagFacesAgainstStoredOnly(_, _, _, _)
TagFacesAgainstStoredOnly(detected, known_faces, known_tags, tagged_faces) ==
    IF detected = << >> THEN tagged_faces
    ELSE LET embedding == Head(detected)
             best == BestMatch(embedding, known_faces,
                               [tag |-> << >>, score |-> ScoreMinusOne])
             reuse == best.tag # << >> /\ ScoreAtLeastThreshold(best.score)
             assigned_tag == IF reuse THEN best.tag ELSE _next_face_tag(known_tags)
             face_payload == [tag |-> assigned_tag, embedding |-> embedding]
         IN  IF embedding = << >>
             THEN TagFacesAgainstStoredOnly(Tail(detected), known_faces, known_tags,
                                            tagged_faces)
             ELSE TagFacesAgainstStoredOnly(
                      Tail(detected), known_faces,
                      IF reuse THEN known_tags ELSE known_tags \cup {assigned_tag},
                      Append(tagged_faces, face_payload))

\* The loop over detected: a face without an embedding is skipped; a face
\* takes the best known tag when its score reaches the threshold, a fresh
\* tag otherwise, and joins known_faces for the faces after it.
RECURSIVE TagFaces(_, _, _, _)
TagFaces(detected, known_faces, known_tags, tagged_faces) ==
    IF detected = << >> THEN tagged_faces
    ELSE LET embedding == Head(detected)
             best == BestMatch(embedding, known_faces,
                               [tag |-> << >>, score |-> ScoreMinusOne])
             reuse == best.tag # << >> /\ ScoreAtLeastThreshold(best.score)
             assigned_tag == IF reuse THEN best.tag ELSE _next_face_tag(known_tags)
             face_payload == [tag |-> assigned_tag, embedding |-> embedding]
         IN  IF embedding = << >>
             THEN TagFaces(Tail(detected), known_faces, known_tags, tagged_faces)
             ELSE TagFaces(Tail(detected),
                           Append(known_faces, face_payload),
                           IF reuse THEN known_tags ELSE known_tags \cup {assigned_tag},
                           Append(tagged_faces, face_payload))

\* detect_and_tag_faces_for_user(user_id, image_bytes, db); detected is what
\* the detector returned for image_bytes, one embedding per face.
detect_and_tag_faces_for_user(user_id, detected) ==
    IF detected = << >> THEN << >>
    ELSE LET existing_images == list_images_for_user(user_id, "uploaded", "desc")
             known_faces == KnownFaces(existing_images)
             known_tags == {known_faces[i].tag : i \in 1 .. Len(known_faces)}
         IN  TagFaces(detected, known_faces, known_tags, << >>)

\* The tags on the owner's stored records.
StoredTags(user_id) ==
    UNION {{r.faces[i].tag : i \in 1 .. Len(r.faces)} :
              r \in {x \in images : x.user_id = user_id}}

\* Ingestion of an image with faces: the faces are tagged against the
\* owner's stored records and the record is stored with the tagged faces.
ingest_photo(user_id, detected) ==
    LET faces == detect_and_tag_faces_for_user(user_id, detected)
        tags == {faces[i].tag : i \in 1 .. Len(faces)}
    IN  /\ images_seq < MaxTagged
        /\ create_image_metadata(user_id, faces, None)
        /\ minted' = [minted EXCEPT ![user_id] =
                          @ \cup {PersonIndex(tag) : tag \in tags \ StoredTags(user_id)}]
        /\ resp' = [NoResponse EXCEPT !.route = "ingest", !.user = Some(user_id),
                                      !.status = 201, !.photo_id = Some(NextImageId)]
        /\ UNCHANGED <<bucket, dbVars, pending, resolving, users, clock, sessions>>

\* _detect_faces_with_insightface(image_bytes) when it returns.  detector:
\* "unavailable" (_init_analyzer returns None), "undecodable" (cv2.imdecode
\* returns None) or "ok" (analyzer.get returned the faces of the image).
_detect_faces_with_insightface(detector, image_faces) ==
    IF detector \in {"unavailable", "undecodable"} THEN << >> ELSE image_faces

\* The first half of a concurrent ingestion: detect_and_tag_faces_for_user
\* reads the owner's stored faces and returns the tagged faces to its caller.
\* With detector "raises" the analyzer raises inside
\* _detect_faces_with_insightface; nothing catches it on the way out of
\* detect_and_tag_faces_for_user.
tag_faces(call, user_id, detector, image_faces) ==
    /\ pending[call] = None
    /\ images_seq + Cardinality({c \in Calls : pending[c] # None}) < MaxTagged
    /\ IF detector = "raises"
       THEN /\ resp' = [NoResponse EXCEPT !.route = "detect_and_tag_faces_for_user",
                                          !.user = Some(user_id), !.raised = TRUE]
            /\ UNCHANGED pending
       ELSE /\ pending' = [pending EXCEPT ![call] =
                  Some([user_id |-> user_id,
                        faces |-> detect_and_tag_faces_for_user(user_id,
                                     _detect_faces_with_insightface(detector, image_faces))])]
            /\ UNCHANGED resp
    /\ UNCHANGED <<appVars, dbVars, assigned, minted, users, resolving, clock, sessions>>

\* The second half: the caller stores the record with the faces it was given.
store_tagged_faces(call) ==
    /\ pending[call] # None
    /\ LET user_id == pending[call][1].user_id
           faces == pending[call][1].faces
           tags == {faces[i].tag : i \in 1 .. Len(faces)}
       IN  /\ create_image_metadata(user_id, faces, None)
           /\ minted' = [minted EXCEPT ![user_id] =
                             @ \cup {PersonIndex(tag) : tag \in tags \ StoredTags(user_id)}]
           /\ resp' = [NoResponse EXCEPT !.route = "ingest", !.user = Some(user_id),
                                         !.status = 201, !.photo_id = Some(NextImageId)]
    /\ pending' = [pending EXCEPT ![call] = None]
    /\ UNCHANGED <<bucket, dbVars, users, resolving, clock, sessions>>

\* Time passes: _now_iso() returns a later time.
tick ==
    /\ clock < MaxClock
    /\ clock' = clock + 1
    /\ UNCHANGED <<appVars, dbVars, assigned, minted, pending, resolving, users, sessions, resp>>

----------------------------------------------------------------------------
(* The system *)

Init ==
    /\ images = {}
    /\ bucket = {}
    /\ images_seq = 0
    /\ photos = {}
    /\ photos_fts = {}
    /\ photos_vec = {}
    /\ user_stats = {}
    /\ photos_seq = PhotosSeqSeed
    /\ committed = [photos |-> {}, photos_fts |-> {}, photos_vec |-> {}, user_stats |-> {}]
    /\ failed = {}
    /\ ingesting = None
    /\ assigned = [images |-> {}, photos |-> {}]
    /\ minted = [u \in Users |-> {}]
    /\ pending = [c \in Calls |-> None]
    /\ resolving = None
    /\ users = {[id |-> 1, username |-> <<"a", "n", "n">>, email |-> <<"a", "@", "x">>],
                [id |-> 2, username |-> <<"b", "o", "b">>, email |-> <<"b", "@", "x">>]}
    /\ clock = 0
    /\ sessions = {SessionRecord(u, u, hash_session_token(u), 0, SessionMaxAge) : u \in Users}
    /\ resp = NoResponse

\* Query strings of GET /api/profile: the four valid ones and two invalid.
ProfileQueries ==
    ({"uploaded", "taken"} \X {"asc", "desc"}) \cup {<<"size", "asc">>, <<"taken", "up">>}

\* Requests that name a photo: <<auth, raw photo_id>>.  Every authenticated
\* user with every id, one request without a session, one without digits.
PhotoRequests ==
    ({Some(u) : u \in Users} \X {Some(i) : i \in RequestIds})
        \cup {<<None, Some(1)>>} \cup {<<Some(u), None>> : u \in Users}

\* Uploads: <<auth, payload_ok, fails>>.
UploadRequests ==
    ({Some(u) : u \in Users} \X {TRUE} \X {"no", "before", "after"})
        \cup {<<None, TRUE, "no">>} \cup {<<Some(u), FALSE, "no">> : u \in Users}

\* Deletes: <<auth, raw photo_id, confirm_delete>>.
DeleteRequests ==
    {<<rq[1], rq[2], TRUE>> : rq \in PhotoRequests}
        \cup {<<Some(u), Some(1), FALSE>> : u \in Users}

\* The writers of both databases.
Next ==
    \/ \E rq \in UploadRequests : upload_photo_api(rq[1], rq[2], None, rq[3])
    \/ \E rq \in DeleteRequests : delete_photo_api(rq[1], rq[2], rq[3])
    \/ \E u \in Users, raises \in {"no", "encode", "vec_insert"} :
            save_photo_to_db(u, TextWithPlace, raises)
    \/ \E u \in Users : save_video_to_db(u)

Spec == Init /\ [][Next]_vars

\* The ingestion script over photos.db.
NextIngest ==
    \/ \E u \in Users, text \in Texts, captioning \in {"ok", "unavailable", "raises"},
          raises \in {"no", "encode", "vec_insert"} :
            get_complete_metadata(u, text, captioning, raises)
    \/ \E u \in Users : save_video_to_db(u)

SpecIngest == Init /\ [][NextIngest]_vars

\* Ingestion where the only failure is an embedding of the wrong width.
NextEmbedding ==
    \/ \E u \in Users, text \in Texts, raises \in {"no", "dimension"} :
            save_photo_to_db(u, text, raises)
    \/ \E u \in Users : save_video_to_db(u)

SpecEmbedding == Init /\ [][NextEmbedding]_vars

\* The ingestion script over photos.db, one statement per step.
NextIngestSteps ==
    \/ \E u \in Users, text \in Texts, is_photo \in BOOLEAN :
            execute_insert_photos(u, text, is_photo)
    \/ upload_to_b2
    \/ embed_model_encode
    \/ embed_model_encode_raises
    \/ execute_insert_photos_vec
    \/ conn_commit

SpecIngestSteps == Init /\ [][NextIngestSteps]_vars

\* The HTTP handlers over users.db.
NextMedia ==
    \/ \E auth \in AuthContexts, q \in ProfileQueries : profile_api(auth, q[1], q[2])
    \/ \E rq \in UploadRequests, taken_at \in TakenAts :
            rq[3] = "no" /\ upload_photo_api(rq[1], rq[2], taken_at, rq[3])
    \/ \E rq \in PhotoRequests : download_photo_api(rq[1], rq[2])
    \/ \E rq \in PhotoRequests : view_photo(rq[1], rq[2])
    \/ \E rq \in DeleteRequests : delete_photo_api(rq[1], rq[2], rq[3])

SpecMedia == Init /\ [][NextMedia]_vars

\* Uploads that succeed or fail on the way to object storage, with the
\* routes that show what they left behind.
NextStorage ==
    \/ \E rq \in UploadRequests : upload_photo_api(rq[1], rq[2], None, rq[3])
    \/ \E auth \in AuthContexts : profile_api(auth, "uploaded", "desc")
    \/ \E rq \in PhotoRequests : download_photo_api(rq[1], rq[2])
    \/ debug_b2

SpecStorage == Init /\ [][NextStorage]_vars

\* Listing and upload requests, valid and invalid, as time passes.
NextTimed ==
    \/ tick
    \/ \E auth \in AuthContexts, q \in ProfileQueries : profile_api(auth, q[1], q[2])
    \/ \E rq \in UploadRequests : upload_photo_api(rq[1], rq[2], None, rq[3])

SpecTimed == Init /\ [][NextTimed]_vars

\* Face-tagging ingestion and deletion over users.db.
TagDeleteRequests == {<<Some(u), Some(i), TRUE>> : u \in Users, i \in 1 .. MaxTagged}

NextTag ==
    \/ \E u \in Users, detected \in Detections : ingest_photo(u, detected)
    \/ \E rq \in TagDeleteRequests : delete_photo_api(rq[1], rq[2], rq[3])

SpecTag == Init /\ [][NextTag]_vars

\* What a tagging call meets: <<detector outcome, faces in the image>>.
TagRequests ==
    ({"ok"} \X Detections) \cup ({"unavailable", "undecodable", "raises"} \X {<<FaceA>>})

\* Face-tagging ingestions whose read and write interleave.
NextTagConcurrent ==
    \/ \E call \in Calls, u \in Users, rq \in TagRequests :
            tag_faces(call, u, rq[1], rq[2])
    \/ \E call \in Calls : store_tagged_faces(call)

SpecTagConcurrent == Init /\ [][NextTagConcurrent]_vars

\* Nobody is signed in: the accounts exist, table sessions is empty.
InitSignedOut ==
    /\ images = {}
    /\ bucket = {}
    /\ images_seq = 0
    /\ photos = {}
    /\ photos_fts = {}
    /\ photos_vec = {}
    /\ user_stats = {}
    /\ photos_seq = PhotosSeqSeed
    /\ committed = [photos |-> {}, photos_fts |-> {}, photos_vec |-> {}, user_stats |-> {}]
    /\ failed = {}
    /\ ingesting = None
    /\ assigned = [images |-> {}, photos |-> {}]
    /\ minted = [u \in Users |-> {}]
    /\ pending = [c \in Calls |-> None]
    /\ resolving = None
    /\ users = {[id |-> 1, username |-> <<"a", "n", "n">>, email |-> <<"a", "@", "x">>],
                [id |-> 2, username |-> <<"b", "o", "b">>, email |-> <<"b", "@", "x">>]}
    /\ clock = 0
    /\ sessions = {}
    /\ resp = NoResponse

\* The CSRF cookie and form token of a form post: equal, different, one or
\* both missing, both empty.
CsrfPairs == {<<Some("a"), Some("a")>>, <<Some("a"), Some("b")>>, <<None, Some("a")>>,
              <<Some("a"), None>>, <<Some(""), Some("")>>, <<None, None>>}

\* The email and password of a login form: a field empty, an unknown
\* address, a wrong password, or the credentials of a user.
Credentials == {<<None, Some(1)>>, <<Some(1), None>>, <<Some(0), Some(1)>>,
                <<Some(1), Some(2)>>} \cup {<<Some(u), Some(u)>> : u \in Users}

\* Signing in and out, and the pages behind the session.
NextSession ==
    \/ \E token \in SessionCookies, csrf \in CsrfPairs, form \in Credentials :
          login_post(token, csrf[1], csrf[2], form[1], form[2])
    \/ \E token \in SessionCookies, csrf \in CsrfPairs : logout(token, csrf[1], csrf[2])
    \/ \E token \in SessionCookies : dashboard(token)
    \/ \E token \in SessionCookies : profile(token)
    \/ \E token \in SessionCookies : home(token)
    \/ \E token \in SessionCookies : profile_api(token, "uploaded", "desc")

SpecSession == InitSignedOut /\ [][NextSession]_vars

\* The session store while time passes: users sign in, visit the dashboard,
\* and sessions run out.
NextStore ==
    \/ tick
    \/ \E u \in Users : login_post(None, Some("a"), Some("a"), Some(u), Some(u))
    \/ \E token \in SessionCookies : dashboard(token)

SpecStore == InitSignedOut /\ [][NextStore]_vars

\* The protected routes while time passes: both users are signed in, user 1
\* uploads, sessions are ended by logout or run out, and requests arrive
\* with every session cookie.
NextGate ==
    \/ tick
    \/ upload_photo_api(Some(1), TRUE, None, "no")
    \/ \E token \in SessionCookies : logout(token, Some("a"), Some("a"))
    \/ \E token \in SessionCookies : dashboard(token)
    \/ \E token \in SessionCookies : profile(token)
    \/ \E token \in SessionCookies : home(token)
    \/ \E token \in SessionCookies : profile_api(token, "uploaded", "desc")
    \/ \E token \in SessionCookies : upload_photo_api(token, FALSE, None, "no")
    \/ \E token \in SessionCookies : download_photo_api(token, Some(1))
    \/ \E token \in SessionCookies : view_photo(token, Some(1))
    \/ \E token \in SessionCookies : delete_photo_api(token, Some(1), FALSE)

SpecGate == Init /\ [][NextGate]_vars

\* The life of the sessions of user 1: the user signs in, with or without
\* the cookie of an earlier session, signs out, opens the dashboard and
\* calls the API with every session cookie, while sessions run out.
NextRevocation ==
    \/ tick
    \/ \E token \in SessionCookies :
          login_post(token, Some("a"), Some("a"), Some(1), Some(1))
    \/ \E token \in SessionCookies : logout(token, Some("a"), Some("a"))
    \/ \E token \in SessionCookies : dashboard(token)
    \/ \E token \in SessionCookies : profile_api(token, "uploaded", "desc")

SpecRevocation == InitSignedOut /\ [][NextRevocation]_vars

\* Requests of user 1 that overlap: the dashboard resolves its session call
\* by call while the user signs in, signs in again and signs out, and
\* sessions run out.
NextConcurrent ==
    \/ tick
    \/ \E token \in SessionCookies :
          login_post(token, Some("a"), Some("a"), Some(1), Some(1))
    \/ \E token \in SessionCookies : logout(token, Some("a"), Some("a"))
    \/ \E token \in SessionCookies : dashboard_fetch_session(token)
    \/ dashboard_revoke_session
    \/ dashboard_touch_session

SpecConcurrent == InitSignedOut /\ [][NextConcurrent]_vars

\* The CSRF cookie and form token of a registration: equal or different.
RegisterCsrfPairs == {<<Some("a"), Some("a")>>, <<Some("a"), Some("b")>>}

\* The registration form over users.db.
NextRegister ==
    \E csrf \in RegisterCsrfPairs, username \in Usernames, email \in RegisterEmails,
       password \in PasswordPairs :
        register_post(csrf[1], csrf[2], username, email, password[1], password[2])

SpecRegister == Init /\ [][NextRegister]_vars

----------------------------------------------------------------------------
(* Properties *)

\* C1 (tenant isolation of listing): every record in the media list that
\* GET /api/profile serves to a user is a stored record owned by that user,
\* and list_images_for_user(A, ...) never holds a record of another owner.
TenantIsolationOfListing ==
    /\ (resp.route = "GET /api/profile" /\ resp.status = 200) =>
          \A i \in 1 .. Len(resp.photos) :
              /\ resp.photos[i].user_id = resp.user[1]
              /\ resp.photos[i] \in images
    /\ \A u \in Users, q \in ProfileQueries :
          \A r \in Range(list_images_for_user(u, q[1], q[2])) : r.user_id = u

\* A user is served a non-empty list while another owner has records too.
ListingServedBesideOtherOwner ==
    /\ resp.route = "GET /api/profile"
    /\ resp.status = 200
    /\ Len(resp.photos) >= 1
    /\ \E r \in images : r.user_id # resp.user[1]

\* C2 (ownership-checked get): fetch_image_for_user(id, A) returns only a
\* stored record with that id owned by A; for an id that is absent or owned
\* by someone else the download and view handlers answer 404 with no signed
\* URL, and a signed URL is only ever issued for a record the user owns.
OwnershipCheckedGet ==
    /\ \A id \in RequestIds, u \in Users :
          LET rec == fetch_image_for_user(id, u)
          IN  IF \E r \in images : r.id = id /\ r.user_id = u
              THEN rec # None /\ rec[1] \in images /\ rec[1].id = id /\ rec[1].user_id = u
              ELSE rec = None
    /\ ( /\ resp.route \in {"GET /api/photos/download", "GET /api/photos/view"}
         /\ resp.user # None
         /\ resp.photo_id # None ) =>
          LET owned == \E r \in images : r.id = resp.photo_id[1] /\ r.user_id = resp.user[1]
          IN  /\ ~owned => (resp.status = 404 /\ resp.url = None)
              /\ resp.url # None => owned

\* A download of another owner's existing record was answered 404.
DownloadOfForeignRecordRefused ==
    /\ resp.route = "GET /api/photos/download"
    /\ resp.status = 404
    /\ resp.url = None
    /\ \E r \in images : r.id = resp.photo_id[1] /\ r.user_id # resp.user[1]

\* C3 (atomic insert): no committed structure of photos.db holds an effect of
\* an ingestion call that raised between its INSERT and its commit: no photos
\* row, keyword row or vector row with the failed call's id, and counters that
\* count only rows of calls that completed.
AtomicInsert ==
    /\ \A id \in failed :
          /\ ~\E p \in committed.photos : p.photo_id = id
          /\ ~\E f \in committed.photos_fts : f.rowid = id
          /\ ~\E v \in committed.photos_vec : v.photo_id = id
    /\ \A s \in committed.user_stats :
          /\ s.photo_count = Cardinality({p \in committed.photos :
                 p.user_id = s.user_id /\ p.is_photo /\ p.photo_id \notin failed})
          /\ s.video_count = Cardinality({p \in committed.photos :
                 p.user_id = s.user_id /\ ~p.is_photo /\ p.photo_id \notin failed})

\* The counters stored for an owner (zero when the owner has no row).
PhotoCount(u) ==
    IF \E s \in user_stats : s.user_id = u
    THEN (CHOOSE s \in user_stats : s.user_id = u).photo_count ELSE 0

VideoCount(u) ==
    IF \E s \in user_stats : s.user_id = u
    THEN (CHOOSE s \in user_stats : s.user_id = u).video_count ELSE 0

\* C4 (aggregate consistency): for every owner, photo_count is the number of
\* the owner's existing photo records (the photos a user uploaded through the
\* API and the photos ingested into photos.db) and video_count the number of
\* the owner's existing video records.
AggregateConsistency ==
    \A u \in Users :
        /\ PhotoCount(u) = Cardinality({r \in images : r.user_id = u})
                             + Cardinality({p \in photos : p.user_id = u /\ p.is_photo})
        /\ VideoCount(u) = Cardinality({p \in photos : p.user_id = u /\ ~p.is_photo})

View == [photos |-> photos, photos_fts |-> photos_fts,
         photos_vec |-> photos_vec, user_stats |-> user_stats]

\* C7 (keyword-index synchronization): for every photos row, in the view of
\* the connection and in the committed database, the keyword index holds
\* exactly one entry keyed by the row's id, carrying the row's owner and its
\* location, caption and recognized-text columns, if the row is a photo, and
\* no entry if it is a video.
KeywordIndexSynchronization ==
    \A db \in {View, committed} :
        \A p \in db.photos :
            {f \in db.photos_fts : f.rowid = p.photo_id} =
                IF p.is_photo
                THEN {[rowid |-> p.photo_id, loc_description |-> p.loc_description,
                       loc_city |-> p.loc_city, loc_state |-> p.loc_state,
                       loc_country |-> p.loc_country, caption |-> p.caption,
                       ocr_text |-> p.ocr_text, user_id |-> p.user_id]}
                ELSE {}

\* Photos of two owners and a video have been committed.
PhotosAndVideoCommitted ==
    /\ \E p \in committed.photos : ~p.is_photo
    /\ \E p, q \in committed.photos : p.is_photo /\ q.is_photo /\ p.user_id # q.user_id

\* C8 (vector-index synchronization): in the committed database photos_vec
\* holds exactly one entry per photo row, with the row's id and user_id, and
\* no entry for a video row.
VectorIndexSynchronization ==
    \A p \in committed.photos :
        LET E == {v \in committed.photos_vec : v.photo_id = p.photo_id}
        IN  IF p.is_photo
            THEN Cardinality(E) = 1 /\ \A v \in E : v.user_id = p.user_id
            ELSE E = {}

\* C9 (monotonic record identity): a newly inserted row of images or of
\* photos has an id greater than every id its table has handed out before.
MonotonicRecordIdentity ==
    [][ /\ \A r \in images' \ images : \A i \in assigned.images : r.id > i
        /\ \A p \in photos' \ photos : \A i \in assigned.photos : p.photo_id > i
      ]_vars

\* An upload was stored after the record with the highest id had been deleted.
UploadAfterHighestDeleted ==
    /\ resp.route = "POST /api/photos"
    /\ resp.status = 201
    /\ resp.photo_id = Some(2)
    /\ {r.id : r \in images} = {2}

\* C10 (face-tag numbering invariant): every tag an ingestion emits for an
\* owner is either a tag already on that owner's stored records or emitted
\* earlier in the same call, or it is person_<n> with n one more than the
\* largest person_<integer> suffix known for that owner (0 when none), and
\* that suffix has not been minted for the owner before.
FaceTagNumbering ==
    [][\A r \in images' \ images :
          \A i \in 1 .. Len(r.faces) :
              LET tag == r.faces[i].tag
                  known == StoredTags(r.user_id) \cup {r.faces[j].tag : j \in 1 .. i - 1}
                  largest == Max({0} \cup {PersonIndex(t) : t \in known})
              IN  \/ tag \in known
                  \/ /\ tag = PersonTag(largest + 1)
                     /\ largest + 1 \notin minted[r.user_id]]_vars

\* The <<embedding, tag>> pairs on the owner's stored records.
StoredFaces(user_id) ==
    UNION {{<<r.faces[i].embedding, r.faces[i].tag>> : i \in 1 .. Len(r.faces)} :
              r \in {x \in images : x.user_id = user_id}}

\* C11 (face-tag stability across calls): when an ingestion presents an
\* embedding that a stored record of the same owner already carries, the
\* face gets the tag that record carries; no new tag is minted for it.
FaceTagStability ==
    [][\A r \in images' \ images :
          \A i \in 1 .. Len(r.faces) :
              \A known \in StoredFaces(r.user_id) :
                  known[1] = r.faces[i].embedding => r.faces[i].tag = known[2]]_vars

\* Two records of one owner, stored by two calls, carry the same embedding
\* under the same tag.
SameFaceStoredTwice ==
    \E r1, r2 \in images :
        /\ r1.id < r2.id
        /\ r1.user_id = r2.user_id
        /\ \E i \in 1 .. Len(r1.faces), j \in 1 .. Len(r2.faces) :
              /\ r1.faces[i].embedding = r2.faces[j].embedding
              /\ r1.faces[i].tag = r2.faces[j].tag

\* C12 (cross-owner tag independence): every tag an ingestion emits is
\* either carried by the same owner's stored faces (or emitted earlier in the
\* call) or is one past the largest suffix among them, so the first face of
\* an owner's first photo is person_1 whatever other owners have stored.
CrossOwnerTagIndependence ==
    [][\A r \in images' \ images :
          /\ \A i \in 1 .. Len(r.faces) :
                LET own == StoredTags(r.user_id) \cup {r.faces[j].tag : j \in 1 .. i - 1}
                IN  \/ r.faces[i].tag \in own
                    \/ r.faces[i].tag =
                           PersonTag(Max({0} \cup {PersonIndex(t) : t \in own}) + 1)
          /\ (r.faces # << >> /\ ~\E x \in images : x.user_id = r.user_id)
                => r.faces[1].tag = PersonTag(1)]_vars

\* Two owners each hold one record, the second stored after the first, with
\* the same face embedding, and both carry person_1.
BothOwnersHoldPersonOne ==
    \E r1, r2 \in images :
        /\ r1.user_id # r2.user_id
        /\ r1.id < r2.id
        /\ \A x \in images : x \in {r1, r2}
        /\ r1.faces # << >> /\ r2.faces # << >>
        /\ r1.faces[1].embedding = r2.faces[1].embedding
        /\ r1.faces[1].tag = PersonTag(1)
        /\ r2.faces[1].tag = PersonTag(1)

\* The two embeddings are below the similarity threshold of each other.
Dissimilar(left, right) ==
    ~ScoreAtLeastThreshold(_cosine_similarity(left, right))

\* C13 (serialized tag allocation): two faces of one owner that are
\* dissimilar to each other are never stored on two records under the same
\* tag.
SerializedTagAllocation ==
    \A r1, r2 \in images :
        (r1.id # r2.id /\ r1.user_id = r2.user_id) =>
            \A i \in 1 .. Len(r1.faces), j \in 1 .. Len(r2.faces) :
                Dissimilar(r1.faces[i].embedding, r2.faces[j].embedding)
                    => r1.faces[i].tag # r2.faces[j].tag

\* The taken date a record is ordered by: its taken_at, or its creation
\* timestamp when it has none.
TakenOrCreated(r) == IF r.taken_at = None THEN r.created_at ELSE r.taken_at[1]

NotFound(route, auth, raw_photo_id) ==
    [NoResponse EXCEPT !.route = route, !.user = auth, !.status = 404,
                       !.photo_id = raw_photo_id]

MediaState == <<images, images_seq, photos, photos_fts, photos_vec, user_stats,
                photos_seq, committed>>

\* A request of an authenticated user that validation rejects: a listing
\* with an unknown sort key or order, or an upload with an invalid payload,
\* sent with a session cookie that authenticates.
RejectedRequest(token) ==
    /\ AuthContext(token).user # None
    /\ \/ \E q \in ProfileQueries :
             /\ q[1] \notin {"uploaded", "taken"} \/ q[2] \notin {"asc", "desc"}
             /\ profile_api(token, q[1], q[2])
       \/ \E fails \in {"no", "before", "after"} :
             upload_photo_api(token, FALSE, None, fails)

\* C16 as stated (validation errors have no side effects): a request
\* rejected for invalid input answers 400 and writes no persisted state at
\* all, the session table included.
ValidationWritesNothing ==
    [][\A u \in Users :
          RejectedRequest(Some(u)) =>
              /\ resp'.status = 400
              /\ MediaState' = MediaState
              /\ sessions' = sessions]_vars

\* C16 as amended: a request rejected for invalid input answers 400 and
\* writes nothing to the media state; the one write is the last_seen_at of
\* the requesting user's session, set to the current time by authentication.
ValidationWritesNoMedia ==
    [][\A u \in Users :
          RejectedRequest(Some(u)) =>
              /\ resp'.status = 400
              /\ MediaState' = MediaState
              /\ sessions' = touch_session(sessions, AuthContext(Some(u)).session[1].id,
                                          clock)]_vars

\* A request was rejected with records stored, and the session of the
\* requesting user was touched at the current time while the other was not.
RejectedRequestTouchedSession ==
    /\ resp.status = 400
    /\ images # {}
    /\ clock > 0
    /\ \E s \in sessions : s.user_id = resp.user[1] /\ s.last_seen_at = clock
    /\ \E s \in sessions : s.last_seen_at < clock

\* C17 (upstream degradation is not a failure): when the captioning model
\* is unavailable or raises, get_complete_metadata still returns normally
\* and stores the owner's record, with the caption absent.
UpstreamDegradationIsNotFailure ==
    [][\A u \in Users, text \in Texts, captioning \in {"unavailable", "raises"} :
          get_complete_metadata(u, text, captioning, "no") =>
              /\ ~resp'.raised
              /\ \E p \in photos' \ photos : p.user_id = u /\ p.caption = None]_vars

\* C18 (face-detector failure means zero faces): when the detector is
\* unavailable, the image cannot be decoded, no face is detected or the
\* backend raises, detect_and_tag_faces_for_user returns the empty list to
\* its caller (it does not raise) and leaves the stored records as they are.
DetectorFailureMeansZeroFaces ==
    [][\A call \in Calls, u \in Users :
          \A rq \in ({"unavailable", "undecodable", "raises"} \X {<<FaceA>>})
                       \cup {<<"ok", << >> >>} :
              tag_faces(call, u, rq[1], rq[2]) =>
                  /\ pending'[call] = Some([user_id |-> u, faces |-> << >>])
                  /\ images' = images]_vars

\* C19 (no partial record on failed ingestion): when POST /api/photos ends
\* with status 500, the call has left no record in the images table, so no
\* later list or get can show one.
NoPartialRecordOnFailedUpload ==
    [][\A rq \in UploadRequests :
          (upload_photo_api(rq[1], rq[2], None, rq[3]) /\ resp'.status = 500)
              => images' = images]_vars

\* C20 (no unscoped queries): every response that carries stored media, a
\* media list, a download URL or a file listing, answers an authenticated
\* user and carries only items of that user.
NoUnscopedQueries ==
    (resp.photos # << >> \/ resp.url # None \/ resp.files # {}) =>
        /\ resp.user # None
        /\ \A i \in 1 .. Len(resp.photos) : resp.photos[i].user_id = resp.user[1]
        /\ resp.url # None => resp.url[1][1] = resp.user[1]
        /\ \A owner \in resp.files : owner = resp.user[1]

\* A request to a protected route with this session cookie.
ProtectedRequest(token) ==
    \/ dashboard(token)
    \/ profile(token)
    \/ profile_api(token, "uploaded", "desc")
    \/ \E payload_ok \in BOOLEAN : upload_photo_api(token, payload_ok, None, "no")
    \/ download_photo_api(token, Some(1))
    \/ view_photo(token, Some(1))
    \/ delete_photo_api(token, Some(1), FALSE)

\* The rows of table sessions that make this cookie a valid session: stored
\* under the token's hash, not revoked, expiring in the future, of a user
\* that exists.
ValidSessions(token) ==
    IF token = None THEN {}
    ELSE {s \in sessions : /\ s.token_hash = hash_session_token(token[1])
                           /\ s.revoked_at = None
                           /\ s.expires_at > clock
                           /\ s.user_id \in Users}

PageRoutes == {"GET /dashboard", "GET /profile"}

\* A response that denies the request and carries no user data: a redirect
\* to /login on the routes named, 401 on the others.
Denied(response, redirecting) ==
    /\ response.user = None
    /\ response.photos = << >>
    /\ response.url = None
    /\ response.photo_id = None
    /\ IF response.route \in redirecting
       THEN response.status = 303 /\ response.location = Some("/login")
       ELSE response.status = 401

\* The gate, with the routes that deny by redirecting: a request without a
\* valid session is denied and changes no media; a request served for a
\* user carries a valid session of exactly that user.
Gate(redirecting) ==
    \A token \in SessionCookies :
        ProtectedRequest(token) =>
            /\ ValidSessions(token) = {} =>
                  /\ Denied(resp', redirecting)
                  /\ MediaState' = MediaState
                  /\ bucket' = bucket
            /\ resp'.user # None =>
                  \E s \in ValidSessions(token) : resp'.user = Some(s.user_id)

\* C21 as stated (authentication gate): a request to a protected route is
\* served as authenticated only if its session token has a session row
\* that is not revoked, not expired and of an existing user; otherwise the
\* page routes redirect to /login and every API route answers 401, and no
\* user data is returned.
AuthenticationGate == [][Gate(PageRoutes)]_vars

\* C21 as amended: the same gate, where the routes that redirect to /login
\* are the page routes and /api/photos/view, and the other API routes
\* answer 401.
AuthenticationGateWithViewRedirect ==
    [][Gate(PageRoutes \cup {"GET /api/photos/view"})]_vars

\* With photos stored, a request to /api/photos/view that presented a
\* session run out at this very time was redirected to /login, and the
\* session was revoked.
ExpiredSessionDeniedView ==
    /\ resp.route = "GET /api/photos/view"
    /\ resp.status = 303
    /\ resp.session_cookie = ClearSessionCookie
    /\ images # {}
    /\ \E s \in sessions : s.expires_at = clock /\ s.revoked_at = Some(clock)

\* The rows of table sessions stored for this cookie whose expires_at is
\* not in the future.
ExpiredSessions(token) ==
    IF token = None THEN {}
    ELSE {s \in sessions : /\ s.token_hash = hash_session_token(token[1])
                           /\ s.expires_at <= clock}

\* C22 (expired sessions are revoked and cleared): a request to a protected
\* route that presents a session whose expires_at is not in the future is
\* denied, leaves that session revoked in the store, and - when it is the
\* first such request, the session not being revoked yet - tells the client
\* to clear the session cookie.
ExpiredSessionsRevokedAndCleared ==
    [][\A token \in SessionCookies :
          (ExpiredSessions(token) # {} /\ ProtectedRequest(token)) =>
              /\ resp'.user = None
              /\ resp'.status \in {303, 401}
              /\ \A s \in ExpiredSessions(token) :
                    /\ \E r \in sessions' : r.id = s.id /\ r.revoked_at # None
                    /\ s.revoked_at = None => resp'.session_cookie = ClearSessionCookie]_vars

\* The session cookies that authenticate a request.
Authenticating == {token \in SessionCookies : AuthContext(token).user # None}

\* C23 (login revokes the previous session): when a successful login
\* carries a session cookie, the session stored for that token is revoked
\* once the new session is issued; afterwards the old token does not
\* authenticate, the new token authenticates as the user who signed in, and
\* no other token has changed.
LoginRevokesPreviousSession ==
    [][\A token \in SessionCookies \ {None}, csrf \in CsrfPairs, u \in Users :
          (resp'.status = 303 /\ login_post(token, csrf[1], csrf[2], Some(u), Some(u))) =>
              \E new \in {Some(generate_session_token)} :
                  /\ resp'.session_cookie = SetSessionCookie(new[1])
                  /\ \A s \in sessions' :
                        s.token_hash = hash_session_token(token[1]) => s.revoked_at # None
                  /\ AuthContext(token)'.user = None
                  /\ AuthContext(new)'.user = Some(u)
                  /\ Authenticating' = (Authenticating \ {token}) \cup {new}]_vars

\* A login that carried the cookie of a live session succeeded: the new
\* session is the only live one and the older one was revoked.
SignedInAgain ==
    /\ resp.route = "POST /login"
    /\ resp.status = 303
    /\ Cardinality(sessions) = 2
    /\ \E old \in sessions, new \in sessions :
          /\ resp.session_cookie = SetSessionCookie(new.id)
          /\ new.revoked_at = None
          /\ old.id < new.id
          /\ old.revoked_at # None

\* The rows of table sessions stored for this cookie that are revoked.
RevokedSessions(token) ==
    IF token = None THEN {}
    ELSE {s \in sessions : /\ s.token_hash = hash_session_token(token[1])
                           /\ s.revoked_at # None}

\* Logout with a CSRF form token that matches the CSRF cookie revokes the
\* session of the presented token and clears the session cookie; a revoked
\* session stays revoked; and a later request to a protected route with the
\* token of a revoked session is denied, by a redirect to /login on the
\* routes named and by 401 on the others.
LogoutEnds(redirecting) ==
    /\ \A token \in SessionCookies, csrf \in {Some("a"), Some("b")} :
          logout(token, csrf, csrf) =>
              /\ resp'.session_cookie = ClearSessionCookie
              /\ token # None =>
                    \A s \in sessions' :
                        s.token_hash = hash_session_token(token[1]) => s.revoked_at # None
    /\ \A s \in sessions : s.revoked_at # None =>
          \E r \in sessions' : r.id = s.id /\ r.revoked_at # None
    /\ \A token \in SessionCookies :
          (RevokedSessions(token) # {} /\ ProtectedRequest(token)) =>
              Denied(resp', redirecting)

\* C24 as stated (logout ends the session): after POST /logout with a
\* matching CSRF token the session of the presented token is revoked, the
\* response clears the session cookie, and every later request to a
\* protected route with that token is redirected to login.
LogoutEndsSession ==
    [][LogoutEnds(PageRoutes \cup {"GET /api/profile", "POST /api/photos",
                                   "GET /api/photos/download", "GET /api/photos/view",
                                   "DELETE /api/photos"})]_vars

\* C24 as amended: the same, where the later request is redirected to login
\* by the page routes and /api/photos/view and answered 401 by the other
\* API routes.
LogoutEndsSessionDenyingLater ==
    [][LogoutEnds(PageRoutes \cup {"GET /api/photos/view"})]_vars

\* After a logout that revoked the session before it ran out, a request to
\* /dashboard with a cookie that no longer authenticates was redirected to
\* login and told to clear the cookie.
DashboardBlockedAfterLogout ==
    /\ resp.route = "GET /dashboard"
    /\ resp.status = 303
    /\ resp.location = Some("/login")
    /\ resp.session_cookie = ClearSessionCookie
    /\ \A s \in sessions : s.revoked_at # None /\ s.revoked_at[1] < s.expires_at

\* C25 (CSRF-protected login): a POST /login whose CSRF form token is
\* missing or differs from the CSRF cookie creates no session row and sets
\* no session cookie, whatever credentials it carries; the response is the
\* login page with the CSRF failure message and status 200.
LoginRejectsInvalidCsrf ==
    [][\A token \in SessionCookies, csrf_cookie \in CsrfTokens, csrf_form \in CsrfTokens,
          email \in Emails, password \in Passwords :
          (/\ resp'.route = "POST /login"
           /\ csrf_form = None \/ csrf_form # csrf_cookie
           /\ login_post(token, csrf_cookie, csrf_form, email, password)) =>
              /\ sessions' = sessions
              /\ resp'.session_cookie = None
              /\ "CSRF validation failed. Please try again." \in resp'.errors
              /\ resp'.status = 200]_vars

\* C26 (delete needs explicit confirmation): DELETE /api/photos removes a
\* record only when the payload has confirm_delete true and an integer
\* photo_id; an authenticated delete without confirmation answers 400, and
\* every list and get call of every owner returns afterwards what it
\* returned before.
DeleteNeedsConfirmation ==
    [][\A token \in AuthContexts, raw_photo_id \in RawPhotoIds, confirm_delete \in BOOLEAN :
          (/\ resp'.route = "DELETE /api/photos"
           /\ delete_photo_api(token, raw_photo_id, confirm_delete)) =>
              /\ images' # images => confirm_delete = TRUE /\ raw_photo_id # None
              /\ (confirm_delete # TRUE /\ AuthContext(token).user # None) =>
                    /\ resp'.status = 400
                    /\ \A u \in Users, q \in ProfileQueries :
                          list_images_for_user(u, q[1], q[2])'
                              = list_images_for_user(u, q[1], q[2])
                    /\ \A u \in Users, i \in RequestIds :
                          fetch_image_for_user(i, u)' = fetch_image_for_user(i, u)]_vars

\* A delete of the caller's own record was refused for want of
\* confirmation, and the record is still stored.
UnconfirmedDeleteRefused ==
    /\ resp.route = "DELETE /api/photos"
    /\ resp.status = 400
    /\ resp.errors = {"confirm_delete=true is required to delete a photo"}
    /\ \E r \in images : r.id = 1 /\ r.user_id = resp.user[1]

\* The row of a sessions table with this id.
SessionWithId(db, id) == CHOOSE s \in db : s.id = id

\* Two sessions tables hold the same ids, and every row except the one
\* with this id is the same in both.
SameExcept(db, after, id) ==
    /\ {s.id : s \in after} = {s.id : s \in db}
    /\ Cardinality(after) = Cardinality(db)
    /\ \A s \in db : s.id # id => s \in after

\* touch_session and revoke_session applied to the stored table, for every
\* session id and time.
StoreOperationsChangeOwnField ==
    \A id \in 0 .. MaxSessions, t \in 0 .. MaxClock + 1 :
        /\ SameExcept(sessions, touch_session(sessions, id, t), id)
        /\ SameExcept(sessions, revoke_session(sessions, id, t), id)
        /\ \A s \in sessions : s.id = id =>
              /\ SessionWithId(touch_session(sessions, id, t), id)
                     = [id |-> s.id, user_id |-> s.user_id, token_hash |-> s.token_hash,
                        created_at |-> s.created_at, expires_at |-> s.expires_at,
                        last_seen_at |-> t, revoked_at |-> s.revoked_at]
              /\ SessionWithId(revoke_session(sessions, id, t), id)
                     = [id |-> s.id, user_id |-> s.user_id, token_hash |-> s.token_hash,
                        created_at |-> s.created_at, expires_at |-> s.expires_at,
                        last_seen_at |-> s.last_seen_at, revoked_at |-> Some(t)]

\* C27 (session store operations change only their own field):
\* touch_session(id, t) sets last_seen_at of session id to t and leaves its
\* other fields and every other session unchanged; revoke_session(id, t)
\* sets revoked_at of session id to t and leaves its other fields and every
\* other session unchanged; and the session fetched by token hash after
\* create_session belongs to the user it was created for.
SessionStoreFrames ==
    /\ []StoreOperationsChangeOwnField
    /\ [][\A u \in Users :
             (resp'.status = 303
              /\ login_post(None, Some("a"), Some("a"), Some(u), Some(u))) =>
                 \E token_hash \in {hash_session_token(generate_session_token)} :
                     /\ fetch_session_by_token_hash(sessions, token_hash) = None
                     /\ fetch_session_by_token_hash(sessions', token_hash) # None
                     /\ fetch_session_by_token_hash(sessions', token_hash)[1].user_id = u
                     /\ sessions \subseteq sessions'
                     /\ Cardinality(sessions') = Cardinality(sessions) + 1]_vars

\* Sessions of both users are stored; one was touched after it was created
\* and is live, another was revoked when it ran out.
TouchedAndRevokedSessions ==
    /\ \E s \in sessions, r \in sessions :
          /\ s.user_id # r.user_id
          /\ s.last_seen_at > s.created_at
          /\ s.revoked_at = None
          /\ r.revoked_at # None
          /\ r.revoked_at[1] >= r.expires_at

\* Both CSRF tokens are present and non-empty, and they are equal.
PresentAndEqual(cookie_token, form_token) ==
    /\ cookie_token # None
    /\ form_token # None
    /\ cookie_token[1] # ""
    /\ form_token[1] # ""
    /\ cookie_token[1] = form_token[1]

\* C28 (CSRF double-submit check): verify_csrf_token(cookie, form) is true
\* if and only if both tokens are present, non-empty and equal; so a logout
\* revokes the live session it presents exactly then, and a login with the
\* credentials of a user signs in exactly then.
CsrfDoubleSubmitCheck ==
    /\ [](\A cookie_token \in CsrfTokens, form_token \in CsrfTokens :
             verify_csrf_token(cookie_token, form_token)
                 <=> PresentAndEqual(cookie_token, form_token))
    /\ [][\A cookie_token \in CsrfTokens, form_token \in CsrfTokens :
             /\ \A token \in SessionCookies :
                   (/\ resp'.route = "POST /logout"
                    /\ ValidSessions(token) # {}
                    /\ logout(token, cookie_token, form_token)) =>
                       (AuthContext(token)'.user = None
                            <=> PresentAndEqual(cookie_token, form_token))
             /\ (/\ resp'.route = "POST /login"
                 /\ login_post(None, cookie_token, form_token, Some(1), Some(1))) =>
                    (resp'.status = 303 <=> PresentAndEqual(cookie_token, form_token))]_vars

\* A login with the credentials of a user was refused for its CSRF tokens
\* alone, while a session issued to an accepted login is stored.
LoginRefusedForCsrfOnly ==
    /\ resp.route = "POST /login"
    /\ resp.status = 400
    /\ resp.errors = {"CSRF validation failed. Please try again."}
    /\ sessions # {}

KnownBefore(r, i) ==
    KnownFaces(list_images_for_user(r.user_id, "uploaded", "desc"))
        \o SubSeq(r.faces, 1, i - 1)

\* The known face that matches best: the first one no other face beats.
FirstBest(embedding, known) ==
    LET score(k) == _cosine_similarity(embedding, known[k].embedding)
        best == {k \in 1 .. Len(known) :
                    \A j \in 1 .. Len(known) : ~ScoreGreater(score(j), score(k))}
    IN  CHOOSE k \in best : \A j \in best : k <= j

\* A similarity dot / sqrt(n) of at least 0.45: dot >= 0 and
\* dot^2 / n >= 81 / 400.
AtLeast045(score) == score[1] >= 0 /\ 400 * score[1] * score[1] >= 81 * score[2]

\* C30 (threshold rule of tag assignment): each face an ingestion stores,
\* in detection order, carries the tag of the best-matching known face of
\* the same owner if and only if a known face exists and the best
\* similarity is at least 0.45, the first known face with the best
\* similarity winning; in every other case it carries a newly minted tag,
\* one no known face has.
ThresholdRuleOfTagAssignment ==
    [][\A r \in images' \ images :
          \A i \in 1 .. Len(r.faces) :
              LET known == KnownBefore(r, i)
                  embedding == r.faces[i].embedding
                  tags == {known[k].tag : k \in 1 .. Len(known)}
              IN  /\ embedding # << >>
                  /\ IF /\ known # << >>
                        /\ AtLeast045(_cosine_similarity(
                               embedding, known[FirstBest(embedding, known)].embedding))
                     THEN r.faces[i].tag = known[FirstBest(embedding, known)].tag
                     ELSE /\ r.faces[i].tag \notin tags
                          /\ r.faces[i].tag
                                 = PersonTag(Max({0} \cup {PersonIndex(t) : t \in tags}) + 1)]_vars

\* One owner holds a face and, on a later record, a similar but different
\* face under the same tag, beside a face under another tag whose best
\* similarity stayed below the threshold.
ReusedAboveAndMintedBelowThreshold ==
    \E r1, r2 \in images :
        /\ r1.id < r2.id
        /\ r1.user_id = r2.user_id
        /\ Len(r1.faces) = 1
        /\ Len(r2.faces) = 2
        /\ r1.faces[1].embedding = FaceA2
        /\ r2.faces[1].embedding = FaceA
        /\ r2.faces[2].embedding = FaceB
        /\ r2.faces[1].tag = r1.faces[1].tag
        /\ r2.faces[2].tag # r1.faces[1].tag

\* No face of the sequence known reaches similarity 0.45 with embedding,
\* the face at position except left aside (0 leaves none aside).
MatchesNone(embedding, known, except) ==
    \A k \in 1 .. Len(known) :
        k = except \/ ~AtLeast045(_cosine_similarity(embedding, known[k].embedding))

\* C31 (within-call tag reuse): on every record an ingestion stores, two
\* faces of the same photo whose similarity is at least 0.45, and which
\* match no face the owner had stored and no other earlier face of the
\* call, carry the same tag, and that tag is the one new tag: no stored
\* face of the owner had it.
WithinCallTagReuse ==
    [][\A r \in images' \ images :
          \A i, j \in 1 .. Len(r.faces) :
              LET stored == KnownFaces(list_images_for_user(r.user_id, "uploaded", "desc"))
                  first == r.faces[i]
                  second == r.faces[j]
              IN  (/\ i < j
                   /\ AtLeast045(_cosine_similarity(second.embedding, first.embedding))
                   /\ MatchesNone(first.embedding, KnownBefore(r, i), 0)
                   /\ MatchesNone(second.embedding, KnownBefore(r, j), Len(stored) + i))
                  => /\ second.tag = first.tag
                     /\ first.tag \notin {stored[k].tag : k \in 1 .. Len(stored)}
                     /\ Cardinality({first.tag, second.tag}
                                        \ {stored[k].tag : k \in 1 .. Len(stored)}) = 1]_vars

\* A record holds two similar, different faces under one tag beside a
\* record of the same owner whose face has another tag.
TwoFacesOfOnePhotoShareMintedTag ==
    \E r, other \in images :
        /\ other.id < r.id
        /\ other.user_id = r.user_id
        /\ Len(other.faces) = 1
        /\ other.faces[1].embedding = FaceB
        /\ Len(r.faces) = 2
        /\ r.faces[1].embedding = FaceA
        /\ r.faces[2].embedding = FaceA2
        /\ r.faces[2].tag = r.faces[1].tag
        /\ r.faces[1].tag # other.faces[1].tag

\* The counters a user_stats table holds for an owner: <<photo_count,
\* video_count>>, zero counts when the owner has no row.
Counts(stats, u) ==
    IF \E s \in stats : s.user_id = u
    THEN LET s == CHOOSE s \in stats : s.user_id = u
         IN  <<s.photo_count, s.video_count>>
    ELSE <<0, 0>>

\* One counter of the owner of the inserted row is one higher, the other
\* one is as before, the owner has exactly one row and the rows of the
\* other owners are the same.
OneCounterBumped(before, after, new) ==
    /\ Cardinality({s \in after : s.user_id = new.user_id}) = 1
    /\ Counts(after, new.user_id)
           = IF new.is_photo
             THEN <<Counts(before, new.user_id)[1] + 1, Counts(before, new.user_id)[2]>>
             ELSE <<Counts(before, new.user_id)[1], Counts(before, new.user_id)[2] + 1>>
    /\ {s \in after : s.user_id # new.user_id} = {s \in before : s.user_id # new.user_id}

\* C32 (counter bump frame): every insert of one record changes exactly one
\* counter of exactly one owner: the owner's user_stats row exists
\* afterwards, created from zero counts if there was none, with photo_count
\* one higher for a photo or video_count one higher for a video, the
\* owner's other counter and every other owner's row unchanged; and in the
\* committed database every owner's counters grow by exactly the number of
\* the owner's photos and videos a commit adds.
CounterBumpFrame ==
    [][/\ \A new \in photos' \ photos :
              /\ photos' = photos \cup {new}
              /\ OneCounterBumped(user_stats, user_stats', new)
       /\ photos' = photos => user_stats' = user_stats
       /\ \A u \in Users :
              LET added == {p \in committed'.photos \ committed.photos : p.user_id = u}
              IN  Counts(committed'.user_stats, u)
                      = <<Counts(committed.user_stats, u)[1]
                              + Cardinality({p \in added : p.is_photo}),
                          Counts(committed.user_stats, u)[2]
                              + Cardinality({p \in added : ~p.is_photo})>>]_vars

\* The committed database holds a row of one owner with a photo and a video
\* counted beside a row of another owner with one video only.
CountersOfTwoOwnersBumped ==
    \E s, t \in committed.user_stats :
        /\ s.user_id # t.user_id
        /\ s.photo_count = 1
        /\ s.video_count = 1
        /\ t.photo_count = 0
        /\ t.video_count = 1

\* C33 (slow external work happens outside the write transaction): while
\* an ingestion call is inside the object-storage upload or the embedding
\* computation, no write transaction is open on the connection: the first
\* write of the atomic unit is issued after both have completed.
ExternalWorkOutsideWriteTransaction ==
    ExternalCallInProgress => ~InWriteTransaction

\* Two texts that differ at most in the case of their letters.
SameIgnoringCase(left, right) ==
    /\ Len(left) = Len(right)
    /\ \A i \in 1 .. Len(left) :
          \/ left[i] = right[i]
          \/ {left[i], right[i]} \in {{"a", "A"}, {"b", "B"}, {"c", "C"}, {"d", "D"}}

\* The registration names a username some user has, or an email some user
\* has up to case, as the handler reads them: both stripped.
WouldDuplicate(username_field, email_field) ==
    \E u \in users :
        \/ u.username = strip(OrEmpty(username_field))
        \/ SameIgnoringCase(u.email, strip(OrEmpty(email_field)))

\* C34 (unique accounts): in every reachable state no two users share a
\* username or an email, emails compared after lower-casing; and a
\* registration that would duplicate either one creates no user row, leaves
\* the existing users unchanged and is answered with an error page, not
\* with a redirect to login: only a registration answered with the redirect
\* adds a row, a single one that shares nothing with the rows before, and
\* an otherwise valid form that names a stored username or email gets the
\* page with its errors.
UniqueAccounts ==
    /\ [](\A a, b \in users :
             a # b => /\ a.id # b.id
                      /\ a.username # b.username
                      /\ ~SameIgnoringCase(a.email, b.email))
    /\ [][/\ resp'.status # 303 => users' = users
          /\ resp'.status = 303 =>
                \E row \in users' \ users :
                    /\ users' = users \cup {row}
                    /\ \A u \in users : /\ u.username # row.username
                                         /\ ~SameIgnoringCase(u.email, row.email)
          /\ \A username \in Usernames, email \in RegisterEmails :
                (/\ WouldDuplicate(username, email)
                 /\ register_post(Some("a"), Some("a"), username, email,
                                  Some(Password8), Some(Password8)))
                => /\ users' = users
                   /\ resp'.status = 200
                   /\ resp'.location = None
                   /\ resp'.errors # {}]_vars

\* A third account exists and the last registration, valid but for an email
\* that differs from a stored one in case only, was answered with the
\* error page.
DuplicateRegistrationRefused ==
    /\ Cardinality(users) = 3
    /\ \E u \in users : u.id = 3 /\ u.email = <<"c", "@", "x">> /\ u.username = <<"C", "a", "t">>
    /\ resp.route = "POST /register"
    /\ resp.status = 200
    /\ resp.errors = {"That username or email is already registered."}

\* A request that presents this session cookie to a route behind the
\* session.
RequestPresenting(token) ==
    \/ dashboard(token)
    \/ profile_api(token, "uploaded", "desc")

\* C35 (revocation is permanent): once revoked_at of a session is set, every
\* step - login, logout, authenticated access, expiry handling, the passing
\* of time - leaves the session stored with revoked_at set, and a request
\* presenting that session's token is never served as authenticated: the
\* token resolves to no user, the dashboard redirects to /login and the API
\* answers 401.
RevocationIsPermanent ==
    [][\A token \in SessionCookies :
          RevokedSessions(token) # {} =>
              /\ \A s \in RevokedSessions(token) :
                    \E r \in sessions' :
                        /\ r.id = s.id
                        /\ r.token_hash = s.token_hash
                        /\ r.revoked_at # None
              /\ AuthContext(token)'.user = None
              /\ RequestPresenting(token) =>
                    /\ resp'.user = None
                    /\ resp'.status \in {303, 401}
                    /\ resp'.photos = << >>]_vars

\* After a session was revoked, time passed and its owner signed in again
\* and was served; the revoked session is still revoked, with the time of
\* its revocation.
RevokedSessionStaysRevoked ==
    /\ resp.route = "GET /dashboard"
    /\ resp.status = 200
    /\ \E old \in sessions, new \in sessions :
          /\ old.user_id = new.user_id
          /\ resp.user = Some(new.user_id)
          /\ old.revoked_at # None
          /\ old.revoked_at[1] < new.created_at
          /\ new.revoked_at = None
          /\ new.last_seen_at = clock

\* C36 (no use of a session after its revocation under concurrency): in
\* every interleaving of a request that resolves its session with a logout
\* or a login that revokes it, touch_session is applied only to a session
\* whose revoked_at is not set, and the request is served as authenticated
\* only if the session is unrevoked at its last access to the session
\* store.
NoUseOfSessionAfterRevocation ==
    [][(resolving # None /\ resolving' = None) =>
          \A s \in sessions :
              s.id = resolving[1].session.id =>
                  /\ resolving[1].pc = "touch_session" => s.revoked_at = None
                  /\ resp'.user # None => s.revoked_at = None]_vars

\* Filled-in login forms that name an address no account has, or an
\* account with a password that is not its own.
WrongCredentials ==
    {form \in Credentials :
        /\ form[1] # None
        /\ form[2] # None
        /\ form[1][1] \notin Users \/ form[2][1] # form[1][1]}

\* C37 (failed login changes no session): a POST /login that passes the CSRF
\* check but names an unknown email or a wrong password is answered 401,
\* creates no session row, sets no session cookie and leaves every session
\* as it was, the one of the session cookie it carries included: that
\* session is not revoked and authenticates as before.
FailedLoginChangesNoSession ==
    [][\A token \in SessionCookies, form \in WrongCredentials :
          (/\ resp'.route = "POST /login"
           /\ login_post(token, Some("a"), Some("a"), form[1], form[2]))
          => /\ resp'.status = 401
             /\ resp'.session_cookie = None
             /\ resp'.location = None
             /\ sessions' = sessions
             /\ Authenticating' = Authenticating]_vars

\* A login was refused with 401 while a session is live for the second
\* cookie issued and the first session, replaced by it, is revoked.
LoginRefusedBesideLiveSession ==
    /\ resp.route = "POST /login"
    /\ resp.status = 401
    /\ resp.errors = {"Invalid credentials."}
    /\ Authenticating = {Some(2)}
    /\ \E s \in sessions : s.id = 1 /\ s.revoked_at # None

\* C38 (logout without a valid CSRF token does not touch the session
\* store): when POST /logout fails the CSRF check no session row is
\* modified, so the presented session stays unrevoked and authenticates as
\* before, and the response only clears the session cookie and redirects
\* to /.
LogoutWithoutCsrfLeavesSessions ==
    [][\A token \in SessionCookies, csrf \in CsrfPairs :
          (/\ resp'.route = "POST /logout"
           /\ ~PresentAndEqual(csrf[1], csrf[2])
           /\ logout(token, csrf[1], csrf[2]))
          => /\ sessions' = sessions
             /\ Authenticating' = Authenticating
             /\ resp' = [NoResponse EXCEPT !.route = "POST /logout", !.status = 303,
                                           !.location = Some("/"),
                                           !.session_cookie = <<"clear">>]]_vars

\* A logout was answered while both users' sessions are stored, none of
\* them revoked, and both cookies authenticate.
LogoutAnsweredBesideLiveSessions ==
    /\ resp.route = "POST /logout"
    /\ resp.status = 303
    /\ resp.location = Some("/")
    /\ Cardinality(sessions) = 2
    /\ \A s \in sessions : s.revoked_at = None
    /\ Authenticating = {Some(1), Some(2)}

====
